---- MODULE Spec2Model ----
(***************************************************************************)
(* NutriTrackAI: the nutrition reference store (tools/calorie_tracker.py,  *)
(* tools/ingredient_weights.py), the unit normalizer (core/utils.py) and   *)
(* the meal-description parser (tools/calorie_tracker.py).                 *)
(*                                                                         *)
(* Strings are TLA+ strings, read character by character with SubSeq.      *)
(* Python floats are modelled as exact rationals <<numerator, denominator>>*)
(* in lowest terms; float rounding is outside the model.                   *)
(* A Python dict is a sequence of [k, v] records with distinct keys, in    *)
(* insertion order.                                                        *)
(***************************************************************************)
EXTENDS Integers, Sequences, FiniteSets, TLC

VARIABLES
    REFERENCE_FILE,        \* content of data/raw/nutrition_reference.json
    _REFERENCE_RAW,        \* calorie_tracker._REFERENCE_RAW
    _REFERENCE_CACHE,      \* calorie_tracker._REFERENCE_CACHE
    _REFERENCE_NAME_MAP,   \* calorie_tracker._REFERENCE_NAME_MAP
    IW_REFERENCE_CACHE,    \* ingredient_weights._REFERENCE_CACHE
    last,                  \* the last completed call and what it returned or raised
    threads,               \* per request thread: position and locals
    cacheNames,            \* history: the display-name map of the version _REFERENCE_CACHE was built from
    returned,              \* history: display names whose add, run by a thread, has returned normally;
                           \* in IndexSpec, the retrieve calls and their results since the last
                           \* forced rebuild or corpus change
    started,               \* number of calls started by the request threads
    description,           \* input of _parse_description
    unitcall,              \* input of normalize_unit
    meals,                 \* rows of the SQLite table meals
    meal_items,            \* rows of the SQLite table meal_items
    MEAL_PLAN_FILE,        \* rows of data/raw/healthy_meal_plans.csv
    recipes_sample,        \* rows of data/raw/recipes_sample.csv
    INDEX_FILE,            \* whether faiss_index/recipes.index exists
    META_FILE,             \* content of faiss_index/recipes_meta.json
    VECTORS_FILE,          \* content of faiss_index/recipes_vectors.json
    faiss,                 \* whether the optional faiss and numpy imports succeeded
    args,                  \* arguments of the call under examination
    _conn                  \* rows the SQLite connection has inserted and not committed

vars == <<REFERENCE_FILE, _REFERENCE_RAW, _REFERENCE_CACHE, _REFERENCE_NAME_MAP,
          IW_REFERENCE_CACHE, last, threads, cacheNames, returned, started,
          description, unitcall, meals, meal_items, MEAL_PLAN_FILE, recipes_sample,
          INDEX_FILE, META_FILE, VECTORS_FILE, faiss, args, _conn>>

\* the database, the planner's corpus, the retrieval index and its corpus
toolVars == <<meals, meal_items, MEAL_PLAN_FILE, recipes_sample, INDEX_FILE, META_FILE,
              VECTORS_FILE, faiss, args, _conn>>

storeVars == <<REFERENCE_FILE, _REFERENCE_RAW, _REFERENCE_CACHE, _REFERENCE_NAME_MAP,
               IW_REFERENCE_CACHE>>

-----------------------------------------------------------------------------
(* Bounds *)

MaxFoods == 2

-----------------------------------------------------------------------------
(* Characters and strings (Python str) *)

LowerLetters == "abcdefghijklmnopqrstuvwxyz"

UpperLetters == "ABCDEFGHIJKLMNOPQRSTUVWXYZ"

Digits == "0123456789"

Char(s, i) == SubSeq(s, i, i)

CharsOf(s) == {Char(s, i) : i \in 1..Len(s)}

\* the characters the model's strings are made of
Chars == CharsOf(LowerLetters) \cup CharsOf(UpperLetters) \cup CharsOf(Digits)
             \cup {" ", ",", "-", ".", ";", "|"}

\* position of character c in alphabet, 0 when absent
IndexIn(c, alphabet) ==
    IF \E i \in 1..Len(alphabet) : Char(alphabet, i) = c
    THEN CHOOSE i \in 1..Len(alphabet) : Char(alphabet, i) = c
    ELSE 0

\* the code point of each character
OrdTable ==
    [c \in Chars |->
        CASE IndexIn(c, LowerLetters) > 0 -> 96 + IndexIn(c, LowerLetters)
          [] IndexIn(c, UpperLetters) > 0 -> 64 + IndexIn(c, UpperLetters)
          [] IndexIn(c, Digits) > 0 -> 47 + IndexIn(c, Digits)
          [] c = " " -> 32
          [] c = "," -> 44
          [] c = "-" -> 45
          [] c = "." -> 46
          [] c = ";" -> 59
          [] c = "|" -> 124]

LowerTable ==
    [c \in Chars |->
        IF IndexIn(c, UpperLetters) > 0 THEN Char(LowerLetters, IndexIn(c, UpperLetters))
        ELSE c]

UpperTable ==
    [c \in Chars |->
        IF IndexIn(c, LowerLetters) > 0 THEN Char(UpperLetters, IndexIn(c, LowerLetters))
        ELSE c]

Ord(c) == OrdTable[c]

LowerChar(c) == LowerTable[c]

UpperChar(c) == UpperTable[c]

IsLetter(c) == (65 <= Ord(c) /\ Ord(c) <= 90) \/ (97 <= Ord(c) /\ Ord(c) <= 122)

IsDigit(c) == 48 <= Ord(c) /\ Ord(c) <= 57

RECURSIVE str_lower(_)
\* str.lower()
str_lower(s) == IF s = "" THEN "" ELSE LowerChar(Head(s)) \o str_lower(Tail(s))

RECURSIVE str_lstrip(_)
str_lstrip(s) == IF s # "" /\ Head(s) = " " THEN str_lstrip(Tail(s)) ELSE s

RECURSIVE str_rstrip(_, _)
\* str.rstrip(c) for one character c
str_rstrip(s, c) ==
    IF s # "" /\ Char(s, Len(s)) = c THEN str_rstrip(SubSeq(s, 1, Len(s) - 1), c) ELSE s

\* str.strip(): whitespace off both ends
str_strip(s) == str_rstrip(str_lstrip(s), " ")

RECURSIVE TitleFrom(_, _)
TitleFrom(s, prevLetter) ==
    IF s = "" THEN ""
    ELSE LET c == Head(s)
         IN  (IF prevLetter THEN LowerChar(c) ELSE UpperChar(c))
                 \o TitleFrom(Tail(s), IsLetter(c))

\* str.title(): a letter after a non-letter is uppercased, any other lowercased
str_title(s) == TitleFrom(s, FALSE)

\* sub in s
str_contains(sub, s) ==
    \E i \in 1..(Len(s) - Len(sub) + 1) : SubSeq(s, i, i + Len(sub) - 1) = sub

RECURSIVE str_less(_, _)
\* a < b, the order sorted() uses on str: by code point, a proper prefix first
str_less(a, b) ==
    IF b = "" THEN FALSE
    ELSE IF a = "" THEN TRUE
    ELSE IF Head(a) # Head(b) THEN Ord(Head(a)) < Ord(Head(b))
    ELSE str_less(Tail(a), Tail(b))

RECURSIVE str_replace(_, _, _)
\* str.replace(old, new): every non-overlapping occurrence, left to right
str_replace(s, old, new) ==
    IF Len(s) < Len(old) THEN s
    ELSE IF SubSeq(s, 1, Len(old)) = old
         THEN new \o str_replace(SubSeq(s, Len(old) + 1, Len(s)), old, new)
         ELSE Head(s) \o str_replace(Tail(s), old, new)

RECURSIVE SplitFrom(_, _, _)
SplitFrom(s, sep, cur) ==
    IF s = "" THEN <<cur>>
    ELSE IF Head(s) = sep THEN <<cur>> \o SplitFrom(Tail(s), sep, "")
    ELSE SplitFrom(Tail(s), sep, cur \o Head(s))

\* str.split(sep) for a one-character sep: empty pieces are kept
str_split(s, sep) == SplitFrom(s, sep, "")

\* str.split(): pieces between runs of whitespace, none empty
str_split_ws(s) == SelectSeq(SplitFrom(s, " ", ""), LAMBDA piece : piece # "")

RECURSIVE str_join(_, _)
\* sep.join(pieces)
str_join(sep, pieces) ==
    IF pieces = <<>> THEN ""
    ELSE IF Len(pieces) = 1 THEN pieces[1]
    ELSE pieces[1] \o sep \o str_join(sep, Tail(pieces))

-----------------------------------------------------------------------------
(* Rationals for float arithmetic *)

Abs(n) == IF n < 0 THEN -n ELSE n

RECURSIVE GCD(_, _)
GCD(a, b) == IF b = 0 THEN a ELSE GCD(b, a % b)

Rat(n, d) ==
    LET s == IF d < 0 THEN -1 ELSE 1
        g == GCD(Abs(n), Abs(d))
    IN  <<(s * n) \div g, (s * d) \div g>>

Num(n) == <<n, 1>>

RMul(a, b) == Rat(a[1] * b[1], a[2] * b[2])

RDiv(a, b) == Rat(a[1] * b[2], a[2] * b[1])

RAdd(a, b) == Rat(a[1] * b[2] + b[1] * a[2], a[2] * b[2])

RLess(a, b) == a[1] * b[2] < b[1] * a[2]

RLeq(a, b) == a[1] * b[2] <= b[1] * a[2]

-----------------------------------------------------------------------------
(* Python dict: insertion-ordered, keys distinct *)

DictHas(d, k) == \E i \in 1..Len(d) : d[i].k = k

DictGet(d, k) == d[CHOOSE i \in 1..Len(d) : d[i].k = k].v

\* d[k] = v: an existing key keeps its position
DictSet(d, k, v) ==
    IF DictHas(d, k)
    THEN [d EXCEPT ![CHOOSE i \in 1..Len(d) : d[i].k = k] = [k |-> k, v |-> v]]
    ELSE Append(d, [k |-> k, v |-> v])

RECURSIVE LowerKeyed(_, _)
\* {name.lower(): v for name, v in items}, acc the dict built so far
LowerKeyed(items, acc) ==
    IF items = <<>> THEN acc
    ELSE LowerKeyed(Tail(items), DictSet(acc, str_lower(Head(items).k), Head(items).v))

RECURSIVE InsertSorted(_, _)
\* e placed after every element whose lowercased key is not greater (stable)
InsertSorted(sorted, e) ==
    IF sorted = <<>> THEN <<e>>
    ELSE IF str_less(str_lower(e.k), str_lower(Head(sorted).k))
         THEN <<e>> \o sorted
         ELSE <<Head(sorted)>> \o InsertSorted(Tail(sorted), e)

RECURSIVE SortedByLower(_)
\* sorted(raw.items(), key=lambda item: item[0].lower())
SortedByLower(items) ==
    IF items = <<>> THEN <<>>
    ELSE InsertSorted(SortedByLower(SubSeq(items, 1, Len(items) - 1)), items[Len(items)])

-----------------------------------------------------------------------------
(* The nutrition reference store: tools/calorie_tracker.py *)

\* an Optional[dict] global: None, or a dict
\* the element of a set of one element
Only(S) == CHOOSE x \in S : TRUE

None == [set |-> FALSE, d |-> <<>>]

Some(d) == [set |-> TRUE, d |-> d]

\* a readable JSON file, and one opened for writing and not yet written
FileOf(d) == [ok |-> TRUE, d |-> d]

Truncated == [ok |-> FALSE, d |-> <<>>]

\* {name.lower(): values for name, values in raw.items()}
CacheOf(raw) == LowerKeyed(raw, <<>>)

\* {name.lower(): name for name in raw}
NameMapOf(raw) ==
    LowerKeyed([i \in 1..Len(raw) |-> [k |-> raw[i].k, v |-> raw[i].k]], <<>>)

\* the module globals and the file, as one value the functions below transform
Globals ==
    [file |-> REFERENCE_FILE, raw |-> _REFERENCE_RAW, cache |-> _REFERENCE_CACHE,
     names |-> _REFERENCE_NAME_MAP]

_refresh_reference(g) ==
    [g EXCEPT !.raw = Some(g.file.d),
              !.cache = Some(CacheOf(g.file.d)),
              !.names = Some(NameMapOf(g.file.d))]

_load_reference(g) == IF ~g.cache.set THEN _refresh_reference(g) ELSE g

\* the globals after _reference_display_name(key), and what it returns
_reference_display_name_globals(g) == IF ~g.names.set THEN _refresh_reference(g) ELSE g

_reference_display_name(g, key) ==
    LET names == _reference_display_name_globals(g).names.d
    IN  IF DictHas(names, key) THEN DictGet(names, key) ELSE str_title(key)

_write_reference(g, raw) ==
    LET ordered == SortedByLower(raw)
    IN  [file |-> FileOf(ordered), raw |-> Some(ordered),
         cache |-> Some(CacheOf(ordered)), names |-> Some(NameMapOf(ordered))]

\* the four stored values of raw[display_name]
ScaledValues(calories, protein_g, carb_g, fat_g, reference_grams) ==
    LET factor == RDiv(Num(100), Num(reference_grams))
    IN  [calories |-> RMul(Num(calories), factor),
         protein_g |-> RMul(Num(protein_g), factor),
         carb_g |-> RMul(Num(carb_g), factor),
         fat_g |-> RMul(Num(fat_g), factor)]

\* add_reference_food testing name where it should test display_name
add_reference_food_unstripped(g, name, calories, protein_g, carb_g, fat_g, reference_grams) ==
    LET display_name == str_strip(name)
    IN  IF name = "" THEN [raised |-> TRUE, g |-> g]
        ELSE IF reference_grams <= 0 THEN [raised |-> TRUE, g |-> g]
        ELSE LET g1 == _load_reference(g)
                 raw == DictSet(g1.raw.d, display_name,
                                ScaledValues(calories, protein_g, carb_g, fat_g,
                                             reference_grams))
             IN  [raised |-> FALSE, g |-> _write_reference(g1, raw)]

\* [raised, g]: whether the call raised ValueError, and the globals after it
add_reference_food(g, name, calories, protein_g, carb_g, fat_g, reference_grams) ==
    LET display_name == str_strip(name)
    IN  IF display_name = "" THEN [raised |-> TRUE, g |-> g]
        ELSE IF reference_grams <= 0 THEN [raised |-> TRUE, g |-> g]
        ELSE LET g1 == _load_reference(g)
                 raw == DictSet(g1.raw.d, display_name,
                                ScaledValues(calories, protein_g, carb_g, fat_g,
                                             reference_grams))
             IN  [raised |-> FALSE, g |-> _write_reference(g1, raw)]

\* the first key of data, in dict order, that contains token_lower; 0 when none does
FirstContaining(data, token_lower) ==
    IF \E i \in 1..Len(data) : str_contains(token_lower, data[i].k)
    THEN CHOOSE i \in 1..Len(data) :
            /\ str_contains(token_lower, data[i].k)
            /\ \A j \in 1..(i - 1) : ~str_contains(token_lower, data[j].k)
    ELSE 0

\* _match_food without its exact-match test
_match_food_substring_only(g, token) ==
    LET g1 == _load_reference(g)
        data == g1.cache.d
        token_lower == str_strip(str_lower(token))
        i == FirstContaining(data, token_lower)
    IN  IF i > 0
        THEN [raised |-> FALSE, name |-> _reference_display_name(g1, data[i].k),
              payload |-> data[i].v, g |-> _reference_display_name_globals(g1)]
        ELSE [raised |-> TRUE, name |-> "", payload |-> <<>>, g |-> g1]

\* [raised, name, payload, g]
_match_food(g, token) ==
    LET g1 == _load_reference(g)
        data == g1.cache.d
        token_lower == str_strip(str_lower(token))
        i == FirstContaining(data, token_lower)
    IN  IF DictHas(data, token_lower)
        THEN [raised |-> FALSE, name |-> _reference_display_name(g1, token_lower),
              payload |-> DictGet(data, token_lower),
              g |-> _reference_display_name_globals(g1)]
        ELSE IF i > 0
        THEN [raised |-> FALSE, name |-> _reference_display_name(g1, data[i].k),
              payload |-> data[i].v, g |-> _reference_display_name_globals(g1)]
        ELSE [raised |-> TRUE, name |-> "", payload |-> <<>>, g |-> g1]

-----------------------------------------------------------------------------
(* The ingredient matcher's own cache: tools/ingredient_weights.py *)

iw_load_reference(file, cache) == IF ~cache.set THEN Some(CacheOf(file.d)) ELSE cache

\* [raised, name, payload, cache]
iw_match_food(file, cache, name) ==
    LET data == iw_load_reference(file, cache).d
        token == str_strip(str_lower(name))
        i == FirstContaining(data, token)
    IN  IF DictHas(data, token)
        THEN [raised |-> FALSE, name |-> str_title(name), payload |-> DictGet(data, token),
              cache |-> Some(data)]
        ELSE IF i > 0
        THEN [raised |-> FALSE, name |-> str_title(data[i].k), payload |-> data[i].v,
              cache |-> Some(data)]
        ELSE [raised |-> TRUE, name |-> "", payload |-> <<>>, cache |-> Some(data)]

-----------------------------------------------------------------------------
(* Requests served one at a time: each action is one whole call *)

\* what add_reference_food is called with
NameInputs == {"", " ", "a", "A", " ab", "b"}

MacroInputs ==
    {[calories |-> 52, protein_g |-> 1, carb_g |-> 14, fat_g |-> 0],
     [calories |-> 104, protein_g |-> 2, carb_g |-> 28, fat_g |-> 0]}

GramInputs == {100, 200, 0, -100}

\* the macros and reference grams an add is called with
AddInputs ==
    {c \in MacroInputs \X GramInputs :
        IF c[2] > 0 THEN <<c[1].calories, c[2]>> # <<52, 200>> ELSE c[1].calories = 52}

\* what the lookups are called with
TokenInputs == {"a", "B ", "c", ""}

Values(c, p, cb, f) ==
    [calories |-> Num(c), protein_g |-> Num(p), carb_g |-> Num(cb), fat_g |-> Num(f)]

\* the reference file as shipped: empty, or hand-written entries in no particular order
InitialFiles ==
    {<<>>,
     <<[k |-> "b", v |-> Values(89, 1, 23, 0)], [k |-> "ab", v |-> Values(59, 10, 4, 0)]>>}

NoCall == [op |-> "none"]

NoThreads == <<>>

\* the database empty, no corpus and no index on disk
\* the connection with nothing to commit
NoTransaction == [meals |-> <<>>, meal_items |-> <<>>]

ToolsUnused ==
    /\ meals = <<>>
    /\ meal_items = <<>>
    /\ MEAL_PLAN_FILE = <<>>
    /\ recipes_sample = <<>>
    /\ INDEX_FILE = FALSE
    /\ META_FILE = None
    /\ VECTORS_FILE = None
    /\ faiss = FALSE
    /\ args = NoCall
    /\ _conn = NoTransaction

SetGlobals(g) ==
    /\ REFERENCE_FILE' = g.file
    /\ _REFERENCE_RAW' = g.raw
    /\ _REFERENCE_CACHE' = g.cache
    /\ _REFERENCE_NAME_MAP' = g.names
    /\ cacheNames' = IF g.cache.set THEN NameMapOf(g.raw.d) ELSE <<>>

Init ==
    /\ REFERENCE_FILE \in {FileOf(d) : d \in InitialFiles}
    /\ _REFERENCE_RAW = None
    /\ _REFERENCE_CACHE = None
    /\ _REFERENCE_NAME_MAP = None
    /\ IW_REFERENCE_CACHE = None
    /\ last = NoCall
    /\ threads = NoThreads
    /\ cacheNames = <<>>
    /\ returned = {}
    /\ started = 0
    /\ description = ""
    /\ unitcall = NoCall
    /\ ToolsUnused

AddReferenceFood(name, m, reference_grams) ==
    LET r == add_reference_food(Globals, name, m.calories, m.protein_g, m.carb_g, m.fat_g,
                                reference_grams)
    IN  /\ Len(r.g.file.d) <= MaxFoods
        /\ SetGlobals(r.g)
        /\ last' = [op |-> "add_reference_food", name |-> name, m |-> m,
                    reference_grams |-> reference_grams, raised |-> r.raised]
        /\ UNCHANGED <<toolVars, IW_REFERENCE_CACHE, threads, returned, started,
                       description, unitcall>>

MatchFood(token) ==
    LET r == _match_food(Globals, token)
    IN  /\ SetGlobals(r.g)
        /\ last' = [op |-> "_match_food", token |-> token, raised |-> r.raised,
                    name |-> r.name, payload |-> r.payload]
        /\ UNCHANGED <<toolVars, IW_REFERENCE_CACHE, threads, returned, started,
                       description, unitcall>>

IwMatchFood(name) ==
    LET r == iw_match_food(REFERENCE_FILE, IW_REFERENCE_CACHE, name)
    IN  /\ IW_REFERENCE_CACHE' = r.cache
        /\ last' = [op |-> "iw_match_food", token |-> name, raised |-> r.raised,
                    name |-> r.name, payload |-> r.payload]
        /\ UNCHANGED <<toolVars, REFERENCE_FILE, _REFERENCE_RAW, _REFERENCE_CACHE,
                       _REFERENCE_NAME_MAP, threads, cacheNames, returned, started,
                       description, unitcall>>

Next ==
    \/ \E name \in NameInputs, c \in AddInputs : AddReferenceFood(name, c[1], c[2])
    \/ \E token \in TokenInputs : MatchFood(token)

Spec == Init /\ [][Next]_vars

\* the same requests, and the ingredient matcher's lookups among them
IwNext ==
    \/ \E name \in NameInputs, c \in AddInputs : AddReferenceFood(name, c[1], c[2])
    \/ \E token \in TokenInputs : MatchFood(token)
    \/ \E name \in TokenInputs : IwMatchFood(name)

IwSpec == Init /\ [][IwNext]_vars

-----------------------------------------------------------------------------
(* Claims about the reference store, requests served one at a time *)

IsAdd(call) == call.op = "add_reference_food"

ReturnedAdd(call) == IsAdd(call) /\ ~call.raised

\* each input value times 100/referenceGrams
ExpectedValues(m, reference_grams) ==
    [calories |-> Rat(m.calories * 100, reference_grams),
     protein_g |-> Rat(m.protein_g * 100, reference_grams),
     carb_g |-> Rat(m.carb_g * 100, reference_grams),
     fat_g |-> Rat(m.fat_g * 100, reference_grams)]

\* C1: after a valid add returns, a lookup with the lowercased name returns the
\* four input values times 100/referenceGrams, whatever adds came before.
C1_AddThenLookupReturnsScaledInput ==
    ReturnedAdd(last) =>
        LET r == _match_food(Globals, str_lower(last.name))
        IN  /\ ~r.raised
            /\ r.payload = ExpectedValues(last.m, last.reference_grams)

\* C3: after an add returns, the meal resolver's lookup and the ingredient
\* matcher's lookup both find the entry the rebuilt store holds for the added
\* name, whether or not their caches were populated before the add.
C3_AddRebuildsEveryCache ==
    ReturnedAdd(last) =>
        LET key == str_lower(str_strip(last.name))
            entry == DictGet(CacheOf(REFERENCE_FILE.d), key)
            ct == _match_food(Globals, key)
            iw == iw_match_food(REFERENCE_FILE, IW_REFERENCE_CACHE, key)
        IN  /\ ~ct.raised /\ ct.payload = entry
            /\ ~iw.raised /\ iw.payload = entry

InvalidAdd(call) ==
    IsAdd(call) /\ (str_strip(call.name) = "" \/ call.reference_grams <= 0)

\* C5: an add with a blank name or referenceGrams <= 0 raises, and the file and
\* every cache are what they were before the call.
C5_InvalidAddRaisesAndChangesNothing ==
    [][InvalidAdd(last') => (last'.raised /\ UNCHANGED storeVars)]_vars

\* C5 witness: an invalid add was rejected while the caches were populated.
C5_Witness ==
    /\ InvalidAdd(last) /\ last.raised
    /\ _REFERENCE_CACHE.set /\ Len(REFERENCE_FILE.d) > 0

Exact(data, q) == {i \in 1..Len(data) : data[i].k = q}

Holders(data, q) == {i \in 1..Len(data) : str_contains(q, data[i].k)}

Min(S) == CHOOSE i \in S : \A j \in S : i <= j

\* the call returned entry i of the lookup map under its stored display name
ReturnedEntry(call, i) ==
    /\ ~call.raised
    /\ call.payload = _REFERENCE_CACHE.d[i].v
    /\ call.name = DictGet(_REFERENCE_NAME_MAP.d, _REFERENCE_CACHE.d[i].k)

\* C6: a lookup returns the lookup map's entry whose name equals the lowercased,
\* trimmed query when there is one; otherwise the first entry in scan order whose
\* name contains the query; it raises exactly when no name contains the query.
C6_LookupExactThenFirstSubstring ==
    last.op = "_match_food" =>
        LET data == _REFERENCE_CACHE.d
            q == str_strip(str_lower(last.token))
        IN  /\ Exact(data, q) # {} => \E i \in Exact(data, q) : ReturnedEntry(last, i)
            /\ (Exact(data, q) = {} /\ Holders(data, q) # {})
                   => ReturnedEntry(last, Min(Holders(data, q)))
            /\ last.raised <=> Holders(data, q) = {}

\* C6 witness: an exact match was returned though an earlier entry contains the query.
C6_Witness ==
    /\ last.op = "_match_food" /\ ~last.raised
    /\ LET data == _REFERENCE_CACHE.d
           q == str_strip(str_lower(last.token))
       IN  \E i \in Exact(data, q) : Min(Holders(data, q)) < i

\* C7: the persisted reference set never holds two names equal when lowercased.
C7_NamesUniqueIgnoringCase ==
    LET d == REFERENCE_FILE.d
    IN  \A i, j \in 1..Len(d) : str_lower(d[i].k) = str_lower(d[j].k) => i = j

-----------------------------------------------------------------------------
(* The unit normalizer: core/utils.py *)

GRAM_EQUIVALENTS ==
    <<[k |-> "g", v |-> Num(1)], [k |-> "gram", v |-> Num(1)], [k |-> "grams", v |-> Num(1)],
      [k |-> "kg", v |-> Num(1000)], [k |-> "mg", v |-> Rat(1, 1000)],
      [k |-> "lb", v |-> Rat(453592, 1000)], [k |-> "oz", v |-> Rat(283495, 10000)],
      [k |-> "ml", v |-> Num(1)], [k |-> "l", v |-> Num(1000)], [k |-> "cup", v |-> Num(240)],
      [k |-> "tbsp", v |-> Num(15)], [k |-> "tsp", v |-> Num(5)], [k |-> "piece", v |-> Num(1)],
      [k |-> "pcs", v |-> Num(1)], [k |-> "unit", v |-> Num(1)]>>

\* normalize_unit comparing unit where it should compare unit.lower()
normalize_unit_case_sensitive(quantity, unit) ==
    IF unit \in {"cup", "tbsp", "tsp", "ml", "l"}
    THEN <<RMul(quantity, DictGet(GRAM_EQUIVALENTS, unit)), "g">>
    ELSE IF DictHas(GRAM_EQUIVALENTS, unit)
    THEN <<RMul(quantity, DictGet(GRAM_EQUIVALENTS, unit)), "g">>
    ELSE <<quantity, unit>>

normalize_unit(quantity, unit) ==
    LET unit_lower == str_lower(unit)
    IN  IF unit_lower \in {"cup", "tbsp", "tsp", "ml", "l"}
        THEN <<RMul(quantity, DictGet(GRAM_EQUIVALENTS, unit_lower)), "g">>
        ELSE IF DictHas(GRAM_EQUIVALENTS, unit_lower)
        THEN <<RMul(quantity, DictGet(GRAM_EQUIVALENTS, unit_lower)), "g">>
        ELSE <<quantity, unit>>

QuantityInputs == {Num(0), Num(1), Num(2), Rat(1, 2), Rat(5, 2)}

UnitInputs ==
    {"g", "gram", "grams", "kg", "mg", "lb", "oz", "ml", "l", "cup", "tbsp", "tsp",
     "piece", "pieces", "pcs", "unit", "Cup", "KG", "cups", "serving", "", "gs"}

UnitInit ==
    /\ REFERENCE_FILE = FileOf(<<>>)
    /\ _REFERENCE_RAW = None
    /\ _REFERENCE_CACHE = None
    /\ _REFERENCE_NAME_MAP = None
    /\ IW_REFERENCE_CACHE = None
    /\ last = NoCall
    /\ threads = NoThreads
    /\ cacheNames = <<>>
    /\ returned = {}
    /\ started = 0
    /\ description = ""
    /\ unitcall \in [quantity : QuantityInputs, unit : UnitInputs]
    /\ ToolsUnused

NormalizeUnit ==
    /\ last = NoCall
    /\ last' = [op |-> "normalize_unit", quantity |-> unitcall.quantity,
                unit |-> unitcall.unit,
                ret |-> normalize_unit(unitcall.quantity, unitcall.unit)]
    /\ UNCHANGED <<toolVars, storeVars, threads, cacheNames, returned, started, description,
                   unitcall>>

UnitNext == NormalizeUnit

UnitSpec == UnitInit /\ [][UnitNext]_vars

\* the multipliers the unit table is documented with
DocumentedFactor(unit) ==
    CASE unit \in {"g", "gram", "grams", "ml", "piece", "pieces", "pcs", "unit"} -> Num(1)
      [] unit \in {"kg", "l"} -> Num(1000)
      [] unit = "mg" -> Rat(1, 1000)
      [] unit = "lb" -> Rat(453592, 1000)
      [] unit = "oz" -> Rat(283495, 10000)
      [] unit = "cup" -> Num(240)
      [] unit = "tbsp" -> Num(15)
      [] unit = "tsp" -> Num(5)

ClaimedUnits ==
    {"g", "gram", "grams", "kg", "mg", "lb", "oz", "ml", "l", "cup", "tbsp", "tsp",
     "piece", "pieces", "unit"}

ConvertedUnits ==
    {"g", "gram", "grams", "kg", "mg", "lb", "oz", "ml", "l", "cup", "tbsp", "tsp",
     "piece", "pcs", "unit"}

\* C8 as claimed: every unit of {g, gram, grams, kg, mg, lb, oz, ml, l, cup, tbsp,
\* tsp, piece, pieces, unit} gives (quantity * factor, "g"); every other unit string
\* gives (quantity, unit) unchanged.
C8_NormalizeClaimedTable ==
    last.op = "normalize_unit" =>
        IF last.unit \in ClaimedUnits
        THEN last.ret = <<RMul(last.quantity, DocumentedFactor(last.unit)), "g">>
        ELSE last.ret = <<last.quantity, last.unit>>

\* C8 amended: the table is {g, gram, grams, kg, mg, lb, oz, ml, l, cup, tbsp, tsp,
\* piece, pcs, unit}, matched on the lowercased unit; a unit whose lowercase is not
\* in it ("pieces" included) gives (quantity, unit) unchanged.
C8_NormalizeTable ==
    last.op = "normalize_unit" =>
        IF str_lower(last.unit) \in ConvertedUnits
        THEN last.ret = <<RMul(last.quantity, DocumentedFactor(str_lower(last.unit))), "g">>
        ELSE last.ret = <<last.quantity, last.unit>>

\* C8 witness: normalize(2, "cup") returned (480, "g") and a call with "pieces"
\* is answered unchanged.
C8_Witness ==
    \/ last = [op |-> "normalize_unit", quantity |-> Num(2), unit |-> "cup",
               ret |-> <<Num(480), "g">>]
    \/ /\ last.op = "normalize_unit" /\ last.unit = "pieces"
       /\ last.ret = <<last.quantity, "pieces">> /\ last.quantity = Num(1)

-----------------------------------------------------------------------------
(* The meal-description parser: tools/calorie_tracker.py *)

RECURSIVE DigitsValue(_, _)
\* the number the digits of s spell, after acc
DigitsValue(s, acc) ==
    IF s = "" THEN acc ELSE DigitsValue(Tail(s), acc * 10 + (Ord(Head(s)) - 48))

\* float(token) for a decimal numeral: an optional "-", digits, at most one ".".
\* [ok, value]; ok is FALSE where float() raises ValueError
ParseFloat(token) ==
    LET negative == token # "" /\ Head(token) = "-"
        body == IF negative THEN Tail(token) ELSE token
        dots == {i \in 1..Len(body) : Char(body, i) = "."}
        wellFormed ==
            /\ \A i \in 1..Len(body) : IsDigit(Char(body, i)) \/ Char(body, i) = "."
            /\ \E i \in 1..Len(body) : IsDigit(Char(body, i))
            /\ Cardinality(dots) <= 1
        whole == IF dots = {} THEN body
                 ELSE LET i == CHOOSE i \in dots : TRUE IN SubSeq(body, 1, i - 1)
        frac == IF dots = {} THEN ""
                ELSE LET i == CHOOSE i \in dots : TRUE IN SubSeq(body, i + 1, Len(body))
        magnitude == Rat(DigitsValue(whole \o frac, 0), 10 ^ Len(frac))
    IN  IF wellFormed
        THEN [ok |-> TRUE,
              value |-> IF negative THEN RMul(Num(-1), magnitude) ELSE magnitude]
        ELSE [ok |-> FALSE, value |-> Num(0)]

UnitKeywords == {"g", "gram", "grams", "ml", "cup", "cups", "tbsp", "tsp", "oz"}

RECURSIVE ClassifyTokens(_, _)
\* the loop over a segment's tokens; acc is [quantity, unit, name_tokens]
ClassifyTokens(tokens, acc) ==
    IF tokens = <<>> THEN acc
    ELSE LET token == Head(tokens)
             number == ParseFloat(token)
         IN  IF number.ok
             THEN ClassifyTokens(Tail(tokens), [acc EXCEPT !.quantity = number.value])
             ELSE IF str_lower(token) \in UnitKeywords
             THEN ClassifyTokens(Tail(tokens),
                                 [acc EXCEPT !.unit = str_rstrip(str_lower(token), "s")])
             ELSE ClassifyTokens(Tail(tokens),
                                 [acc EXCEPT !.name_tokens = Append(@, token)])

\* quantity, unit and name tokens of one segment
Classified(part) ==
    ClassifyTokens(str_split_ws(part),
                   [quantity |-> Num(1), unit |-> "serving", name_tokens |-> <<>>])

\* the stripped, non-empty pieces of the description, its "with" and "and"
\* replaced by commas wherever those letters occur
Parts(text) ==
    LET pieces == str_split(str_replace(str_replace(text, "with", ","), "and", ","), ",")
    IN  SelectSeq([i \in DOMAIN pieces |-> str_strip(pieces[i])],
                  LAMBDA part : part # "")

\* MealItemOf scaling by the raw quantity whatever the unit
MealItemOf_quantity_factor(c, ref_name, nutrients) ==
    LET n == normalize_unit(c.quantity, c.unit)
        normalized_unit == n[2]
        factor == c.quantity
    IN  [name |-> str_title(ref_name), quantity |-> c.quantity, unit |-> c.unit,
         calories |-> RMul(nutrients.calories, factor),
         protein_g |-> RMul(nutrients.protein_g, factor),
         carb_g |-> RMul(nutrients.carb_g, factor),
         fat_g |-> RMul(nutrients.fat_g, factor),
         estimated |-> normalized_unit # "g"]

\* the MealItem of one segment whose food matched
MealItemOf(c, ref_name, nutrients) ==
    LET n == normalize_unit(c.quantity, c.unit)
        qty == n[1]
        normalized_unit == n[2]
        factor == IF normalized_unit = "g" THEN RDiv(qty, Num(100)) ELSE c.quantity
    IN  [name |-> str_title(ref_name), quantity |-> c.quantity, unit |-> c.unit,
         calories |-> RMul(nutrients.calories, factor),
         protein_g |-> RMul(nutrients.protein_g, factor),
         carb_g |-> RMul(nutrients.carb_g, factor),
         fat_g |-> RMul(nutrients.fat_g, factor),
         estimated |-> normalized_unit # "g"]

RECURSIVE ParseParts(_, _, _)
\* the loop over the segments; [raised, items, g]
ParseParts(parts, items, g) ==
    IF parts = <<>> THEN [raised |-> FALSE, items |-> items, g |-> g]
    ELSE LET c == Classified(Head(parts))
         IN  IF c.name_tokens = <<>> THEN ParseParts(Tail(parts), items, g)
             ELSE LET food_name == str_join(" ", c.name_tokens)
                      r == _match_food(g, food_name)
                  IN  IF r.raised THEN [raised |-> TRUE, items |-> <<>>, g |-> r.g]
                      ELSE ParseParts(Tail(parts),
                                      Append(items, MealItemOf(c, r.name, r.payload)),
                                      r.g)

\* [raised, items, g]: raised when _match_food raised ValueError
_parse_description(g, text) == ParseParts(Parts(text), <<>>, g)

-----------------------------------------------------------------------------
(* Parsing one description against a fixed reference file *)

MaxWords == 3

Vocabulary == {"2", "cup", "g", "and", "with", ",", "rice", "sandwich", "kiwi"}

RECURSIVE Sentences(_)
\* the descriptions of exactly n words, one space between words
Sentences(n) ==
    IF n = 1 THEN Vocabulary
    ELSE {s \o " " \o w : s \in Sentences(n - 1), w \in Vocabulary}

Descriptions == UNION {Sentences(n) : n \in 1..MaxWords}

ParseFile ==
    <<[k |-> "Rice", v |-> Values(130, 3, 28, 0)],
      [k |-> "Sandwich", v |-> Values(250, 12, 30, 9)]>>

ParseInit ==
    /\ REFERENCE_FILE = FileOf(ParseFile)
    /\ _REFERENCE_RAW = None
    /\ _REFERENCE_CACHE = None
    /\ _REFERENCE_NAME_MAP = None
    /\ IW_REFERENCE_CACHE = None
    /\ last = NoCall
    /\ threads = NoThreads
    /\ cacheNames = <<>>
    /\ returned = {}
    /\ started = 0
    /\ description \in Descriptions
    /\ unitcall = NoCall
    /\ ToolsUnused

ParseDescription ==
    LET r == _parse_description(Globals, description)
    IN  /\ last = NoCall
        /\ SetGlobals(r.g)
        /\ last' = [op |-> "_parse_description", parts |-> Parts(description),
                    raised |-> r.raised, items |-> r.items]
        /\ UNCHANGED <<toolVars, IW_REFERENCE_CACHE, threads, returned, started,
                       description, unitcall>>

ParseNext == ParseDescription

ParseSpec == ParseInit /\ [][ParseNext]_vars

\* the food name of a segment, "" when it has no name tokens
FoodName(part) == str_join(" ", Classified(part).name_tokens)

Named(parts) == SelectSeq(parts, LAMBDA part : FoodName(part) # "")

Matches(part) == ~_match_food(Globals, FoodName(part)).raised

RECURSIVE GroupWords(_, _)
\* the runs of words between the whole words "and" and "with", each joined by a space
GroupWords(words, cur) ==
    IF words = <<>> THEN <<str_join(" ", cur)>>
    ELSE IF Head(words) \in {"and", "with"}
         THEN <<str_join(" ", cur)>> \o GroupWords(Tail(words), <<>>)
         ELSE GroupWords(Tail(words), Append(cur, Head(words)))

RECURSIVE Flatten(_)
Flatten(seqs) == IF seqs = <<>> THEN <<>> ELSE Head(seqs) \o Flatten(Tail(seqs))

\* the segments between commas and whole-word connectors, empty ones discarded
WordSegments(text) ==
    LET pieces == str_split(text, ",")
    IN  SelectSeq(Flatten([i \in DOMAIN pieces |->
                              GroupWords(str_split_ws(pieces[i]), <<>>)]),
                  LAMBDA part : part # "")

\* C9: when one segment's food name matches nothing and another segment's
\* matches, the parse does not raise: it returns the items of the matching
\* segments, in order, and drops the others. (Stated for the descriptions whose
\* segments are cut at whole connector words only, see C10.)
C9_UnmatchedSegmentsAreDropped ==
    (last.op = "_parse_description" /\ last.parts = WordSegments(description)) =>
        LET matching == SelectSeq(Named(last.parts), Matches)
        IN  matching # <<>> =>
               /\ ~last.raised
               /\ Len(last.items) = Len(matching)
               /\ \A i \in 1..Len(matching) :
                     last.items[i].name
                        = str_title(_match_food(Globals, FoodName(matching[i])).name)

\* C10: the parser's segments are the runs between commas and the whole words
\* "and" and "with"; a word that only contains those letters stays in its segment.
C10_SplitsOnlyAtWholeWordConnectors ==
    last.op = "_parse_description" => last.parts = WordSegments(description)

\* whether the segment's unit is one the unit table converts to grams
NormalizesToGrams(c) == str_lower(c.unit) \in ConvertedUnits

\* the scale factor of a segment: grams/100, or the raw quantity
SegmentFactor(c) ==
    IF NormalizesToGrams(c)
    THEN RDiv(RMul(c.quantity, DocumentedFactor(str_lower(c.unit))), Num(100))
    ELSE c.quantity

\* the per-100g values the reference store holds for the segment's food
ReferenceOf(part) == _match_food(Globals, FoodName(part)).payload

\* C11: in a parse that returned, there is one item per segment with a food
\* name; its four macros are the reference per-100g values times grams/100 when
\* the unit normalizes to grams and times the raw quantity otherwise, and it is
\* estimated exactly when the unit does not normalize to grams.
C11_ItemsScaledByGramsOrQuantity ==
    (last.op = "_parse_description" /\ ~last.raised) =>
        LET named == Named(last.parts)
        IN  /\ Len(last.items) = Len(named)
            /\ \A i \in 1..Len(named) :
                  LET c == Classified(named[i])
                      ref == ReferenceOf(named[i])
                      item == last.items[i]
                  IN  /\ item.calories = RMul(ref.calories, SegmentFactor(c))
                      /\ item.protein_g = RMul(ref.protein_g, SegmentFactor(c))
                      /\ item.carb_g = RMul(ref.carb_g, SegmentFactor(c))
                      /\ item.fat_g = RMul(ref.fat_g, SegmentFactor(c))
                      /\ item.estimated <=> ~NormalizesToGrams(c)

\* C11 witness: "2 cup rice" gave rice at 480 g / 100 = 4.8 times its reference
\* values (130 kcal per 100 g), not estimated.
C11_Witness ==
    /\ last.op = "_parse_description" /\ ~last.raised
    /\ Len(last.items) = 1
    /\ last.items[1].name = "Rice"
    /\ last.items[1].unit = "cup" /\ last.items[1].quantity = Num(2)
    /\ last.items[1].calories = Num(624)
    /\ ~last.items[1].estimated

\* whether a token of the segment parsed as a number
QuantityGiven(part) ==
    \E i \in DOMAIN str_split_ws(part) : ParseFloat(str_split_ws(part)[i]).ok

\* C12: an item is flagged estimated unless its segment gave a quantity and gave
\* it directly in grams; an item parsed from a volume unit is estimated.
C12_ConvertedItemsAreEstimated ==
    (last.op = "_parse_description" /\ ~last.raised) =>
        LET named == Named(last.parts)
        IN  \A i \in 1..Len(named) :
               LET c == Classified(named[i])
               IN  (c.unit \notin {"g", "gram"} \/ ~QuantityGiven(named[i]))
                      => last.items[i].estimated

-----------------------------------------------------------------------------
(* Requests served by concurrent threads: one action per access to a module
   global or to the file.  Two open files written at once hold what the later
   json.dump wrote. *)

MaxCalls == 2

Threads == {1, 2}

ConcNameInputs == {"b", "c", " "}

ConcTokenInputs == {"b", "z"}

ConcMacros == [calories |-> 52, protein_g |-> 1, carb_g |-> 14, fat_g |-> 0]

ConcFile == <<[k |-> "ab", v |-> Values(59, 10, 4, 0)]>>

Idle ==
    [pc |-> "idle", op |-> "", arg |-> "", vals |-> <<>>, ret |-> "", raw |-> <<>>,
     ordered |-> <<>>, data |-> <<>>, names |-> <<>>, key |-> ""]

ConcInit ==
    /\ REFERENCE_FILE = FileOf(ConcFile)
    /\ _REFERENCE_RAW = None
    /\ _REFERENCE_CACHE = None
    /\ _REFERENCE_NAME_MAP = None
    /\ IW_REFERENCE_CACHE = None
    /\ last = NoCall
    /\ threads = [t \in Threads |-> Idle]
    /\ cacheNames = <<>>
    /\ returned = {}
    /\ started = 0
    /\ description = ""
    /\ unitcall = NoCall
    /\ ToolsUnused

Goto(t, pc) == threads' = [threads EXCEPT ![t].pc = pc]

ConcUnused == <<IW_REFERENCE_CACHE, description, unitcall>>

\* add_reference_food is called: lines 64-68, and the test of _load_reference
StartAdd(t, name, m, reference_grams) ==
    LET display_name == str_strip(name)
    IN  /\ threads[t].pc = "idle"
        /\ started < MaxCalls
        /\ started' = started + 1
        /\ IF display_name = "" \/ reference_grams <= 0
           THEN /\ threads' = threads
                /\ last' = [op |-> "add_reference_food", name |-> name, raised |-> TRUE]
           ELSE /\ threads' = [threads EXCEPT ![t] =
                      [Idle EXCEPT !.op = "add_reference_food", !.arg = display_name,
                                   !.vals = ScaledValues(m.calories, m.protein_g, m.carb_g,
                                                         m.fat_g, reference_grams),
                                   !.ret = "a_copy",
                                   !.pc = IF _REFERENCE_CACHE.set THEN "a_copy" ELSE "r_read"]]
                /\ last' = last
        /\ UNCHANGED <<toolVars, storeVars, cacheNames, returned, description, unitcall>>

\* _match_food is called: the test of _load_reference
StartMatch(t, token) ==
    /\ threads[t].pc = "idle"
    /\ started < MaxCalls
    /\ started' = started + 1
    /\ threads' = [threads EXCEPT ![t] =
          [Idle EXCEPT !.op = "_match_food", !.arg = token, !.ret = "m_data",
                       !.pc = IF _REFERENCE_CACHE.set THEN "m_data" ELSE "r_read"]]
    /\ UNCHANGED <<toolVars, storeVars, last, cacheNames, returned, description, unitcall>>

\* _refresh_reference: json.load(f); a file being rewritten does not parse
RefreshRead(t) ==
    /\ threads[t].pc = "r_read"
    /\ IF REFERENCE_FILE.ok
       THEN /\ threads' = [threads EXCEPT ![t].raw = REFERENCE_FILE.d, ![t].pc = "r_raw"]
            /\ last' = last
       ELSE /\ threads' = [threads EXCEPT ![t] = Idle]
            /\ last' = [op |-> threads[t].op, name |-> threads[t].arg, raised |-> TRUE]
    /\ UNCHANGED <<toolVars, storeVars, cacheNames, returned, started, description, unitcall>>

\* _REFERENCE_RAW = raw
RefreshRaw(t) ==
    /\ threads[t].pc = "r_raw"
    /\ _REFERENCE_RAW' = Some(threads[t].raw)
    /\ Goto(t, "r_cache")
    /\ UNCHANGED <<toolVars, REFERENCE_FILE, _REFERENCE_CACHE, _REFERENCE_NAME_MAP, last,
                   cacheNames, returned, started, ConcUnused>>

\* _REFERENCE_CACHE = {...}
RefreshCache(t) ==
    /\ threads[t].pc = "r_cache"
    /\ _REFERENCE_CACHE' = Some(CacheOf(threads[t].raw))
    /\ cacheNames' = NameMapOf(threads[t].raw)
    /\ Goto(t, "r_names")
    /\ UNCHANGED <<toolVars, REFERENCE_FILE, _REFERENCE_RAW, _REFERENCE_NAME_MAP, last, returned,
                   started, ConcUnused>>

\* _REFERENCE_NAME_MAP = {...}, and the return to the caller
RefreshNames(t) ==
    /\ threads[t].pc = "r_names"
    /\ _REFERENCE_NAME_MAP' = Some(NameMapOf(threads[t].raw))
    /\ threads' = [threads EXCEPT ![t].raw = <<>>, ![t].pc = threads[t].ret]
    /\ UNCHANGED <<toolVars, REFERENCE_FILE, _REFERENCE_RAW, _REFERENCE_CACHE, last, cacheNames,
                   returned, started, ConcUnused>>

\* raw = dict(_REFERENCE_RAW or {}); raw[display_name] = ...; ordered = sorted
AddCopy(t) ==
    /\ threads[t].pc = "a_copy"
    /\ threads' = [threads EXCEPT
          ![t].ordered = SortedByLower(DictSet(_REFERENCE_RAW.d, threads[t].arg,
                                               threads[t].vals)),
          ![t].pc = "a_open"]
    /\ UNCHANGED <<toolVars, storeVars, last, cacheNames, returned, started, description, unitcall>>

\* REFERENCE_FILE.open("w")
AddOpen(t) ==
    /\ threads[t].pc = "a_open"
    /\ REFERENCE_FILE' = Truncated
    /\ Goto(t, "a_dump")
    /\ UNCHANGED <<toolVars, _REFERENCE_RAW, _REFERENCE_CACHE, _REFERENCE_NAME_MAP, last, cacheNames,
                   returned, started, ConcUnused>>

\* json.dump(ordered, f) and the close of the file
AddDump(t) ==
    /\ threads[t].pc = "a_dump"
    /\ REFERENCE_FILE' = FileOf(threads[t].ordered)
    /\ Goto(t, "a_raw")
    /\ UNCHANGED <<toolVars, _REFERENCE_RAW, _REFERENCE_CACHE, _REFERENCE_NAME_MAP, last, cacheNames,
                   returned, started, ConcUnused>>

\* _REFERENCE_RAW = ordered
AddRaw(t) ==
    /\ threads[t].pc = "a_raw"
    /\ _REFERENCE_RAW' = Some(threads[t].ordered)
    /\ Goto(t, "a_cache")
    /\ UNCHANGED <<toolVars, REFERENCE_FILE, _REFERENCE_CACHE, _REFERENCE_NAME_MAP, last, cacheNames,
                   returned, started, ConcUnused>>

\* _REFERENCE_CACHE = {...}
AddCache(t) ==
    /\ threads[t].pc = "a_cache"
    /\ _REFERENCE_CACHE' = Some(CacheOf(threads[t].ordered))
    /\ cacheNames' = NameMapOf(threads[t].ordered)
    /\ Goto(t, "a_names")
    /\ UNCHANGED <<toolVars, REFERENCE_FILE, _REFERENCE_RAW, _REFERENCE_NAME_MAP, last, returned,
                   started, ConcUnused>>

\* _REFERENCE_NAME_MAP = {...}, and add_reference_food returns
AddNames(t) ==
    /\ threads[t].pc = "a_names"
    /\ _REFERENCE_NAME_MAP' = Some(NameMapOf(threads[t].ordered))
    /\ threads' = [threads EXCEPT ![t] = Idle]
    /\ returned' = returned \cup {threads[t].arg}
    /\ last' = [op |-> "add_reference_food", name |-> threads[t].arg, raised |-> FALSE]
    /\ UNCHANGED <<toolVars, REFERENCE_FILE, _REFERENCE_RAW, _REFERENCE_CACHE, cacheNames, started,
                   ConcUnused>>

\* data = _load_reference(): the read of _REFERENCE_CACHE that is returned
MatchData(t) ==
    /\ threads[t].pc = "m_data"
    /\ threads' = [threads EXCEPT ![t].data = _REFERENCE_CACHE.d,
                                  ![t].names = cacheNames, ![t].pc = "m_scan"]
    /\ UNCHANGED <<toolVars, storeVars, last, cacheNames, returned, started, description, unitcall>>

\* lines 83-91 on the local data, and the test of _reference_display_name
MatchScan(t) ==
    LET data == threads[t].data
        token_lower == str_strip(str_lower(threads[t].arg))
        i == FirstContaining(data, token_lower)
        key == IF DictHas(data, token_lower) THEN token_lower ELSE data[i].k
    IN  /\ threads[t].pc = "m_scan"
        /\ IF DictHas(data, token_lower) \/ i > 0
           THEN /\ threads' = [threads EXCEPT
                      ![t].key = key, ![t].ret = "m_name",
                      ![t].pc = IF _REFERENCE_NAME_MAP.set THEN "m_name" ELSE "r_read"]
                /\ last' = last
           ELSE /\ threads' = [threads EXCEPT ![t] = Idle]
                /\ last' = [op |-> "_match_food", name |-> threads[t].arg, raised |-> TRUE]
        /\ UNCHANGED <<toolVars, storeVars, cacheNames, returned, started, description, unitcall>>

\* return _REFERENCE_NAME_MAP.get(key, key.title()), data[key]
MatchName(t) ==
    LET key == threads[t].key
        names == _REFERENCE_NAME_MAP.d
    IN  /\ threads[t].pc = "m_name"
        /\ last' = [op |-> "_match_food", name |-> threads[t].arg, raised |-> FALSE,
                    key |-> key,
                    ref_name |-> IF DictHas(names, key) THEN DictGet(names, key)
                                 ELSE str_title(key),
                    payload |-> DictGet(threads[t].data, key),
                    data_names |-> threads[t].names]
        /\ threads' = [threads EXCEPT ![t] = Idle]
        /\ UNCHANGED <<toolVars, storeVars, cacheNames, returned, started, description, unitcall>>

ConcNext ==
    \E t \in Threads :
        \/ \E name \in ConcNameInputs : StartAdd(t, name, ConcMacros, 100)
        \/ \E token \in ConcTokenInputs : StartMatch(t, token)
        \/ RefreshRead(t)
        \/ RefreshRaw(t)
        \/ RefreshCache(t)
        \/ RefreshNames(t)
        \/ AddCopy(t)
        \/ AddOpen(t)
        \/ AddDump(t)
        \/ AddRaw(t)
        \/ AddCache(t)
        \/ AddNames(t)
        \/ MatchData(t)
        \/ MatchScan(t)
        \/ MatchName(t)

ConcSpec == ConcInit /\ [][ConcNext]_vars

\* C2: the display name a lookup returns is the one stored, in the version of the
\* store its lookup map was built from, for the entry whose macros it returns.
C2_LookupReadsOneVersion ==
    (last.op = "_match_food" /\ ~last.raised) =>
        last.ref_name = DictGet(last.data_names, last.key)

AllIdle == \A t \in Threads : threads[t].pc = "idle"

\* C4: once every add has returned, the persisted store and the lookup map hold
\* an entry for each name whose add returned.
C4_NoAddIsLost ==
    AllIdle =>
        \A name \in returned :
            /\ REFERENCE_FILE.ok /\ DictHas(REFERENCE_FILE.d, name)
            /\ DictHas(_REFERENCE_CACHE.d, str_lower(name))

-----------------------------------------------------------------------------
(* Totals: core/utils.py, core/schemas.py *)

\* the largest integer not above the rational r
RFloor(r) == r[1] \div r[2]

\* round(x, 2): the nearest multiple of 0.01, an exact half going to the even one
round_2(x) ==
    LET scaled == RMul(x, Num(100))
        low == RFloor(scaled)
        twice == 2 * (scaled[1] - low * scaled[2])
        nearest == IF twice < scaled[2] THEN low
                   ELSE IF twice > scaled[2] THEN low + 1
                   ELSE IF low % 2 = 0 THEN low ELSE low + 1
    IN  Rat(nearest, 100)

MacroKeys == <<"calories", "protein_g", "carb_g", "fat_g">>

RECURSIVE SumKey(_, _)
\* totals[key] after the loop: item.get(key, 0.0) added up
SumKey(items, key) ==
    IF items = <<>> THEN Num(0)
    ELSE RAdd(IF DictHas(items[Len(items)], key) THEN DictGet(items[Len(items)], key)
              ELSE Num(0),
              SumKey(SubSeq(items, 1, Len(items) - 1), key))

\* the dict macro_totals returns: a defaultdict gets a key when the loop first
\* adds to it, so no item leaves it without keys
macro_totals(items) ==
    IF items = <<>> THEN <<>>
    ELSE [i \in 1..Len(MacroKeys) |->
             [k |-> MacroKeys[i], v |-> round_2(SumKey(items, MacroKeys[i]))]]

RECURSIVE SumItems(_, _)
\* sum(item.<field> for item in items), field one of MacroKeys
SumItems(items, key) ==
    IF items = <<>> THEN Num(0)
    ELSE LET item == items[Len(items)]
             value == CASE key = "calories" -> item.calories
                        [] key = "protein_g" -> item.protein_g
                        [] key = "carb_g" -> item.carb_g
                        [] key = "fat_g" -> item.fat_g
         IN  RAdd(value, SumItems(SubSeq(items, 1, Len(items) - 1), key))

\* Meal.totals
MealTotals(items) ==
    [calories |-> round_2(SumItems(items, "calories")),
     protein_g |-> round_2(SumItems(items, "protein_g")),
     carb_g |-> round_2(SumItems(items, "carb_g")),
     fat_g |-> round_2(SumItems(items, "fat_g"))]

-----------------------------------------------------------------------------
(* The database: core/db.py.  A table is the sequence of its rows in rowid
   order; no row is ever deleted, so AUTOINCREMENT gives the next position. *)

Db == [meals |-> meals, meal_items |-> meal_items]

RECURSIVE InsertItems(_, _, _)
\* the INSERT INTO meal_items of each item of the meal, in order
InsertItems(rows, meal_id, items) ==
    IF items = <<>> THEN rows
    ELSE LET item == Head(items)
             row == [id |-> Len(rows) + 1, meal_id |-> meal_id, name |-> item.name,
                     qty |-> item.quantity, unit |-> item.unit, cal |-> item.calories,
                     protein_g |-> item.protein_g, carb_g |-> item.carb_g,
                     fat_g |-> item.fat_g,
                     estimated |-> IF item.estimated THEN 1 ELSE 0]
         IN  InsertItems(Append(rows, row), meal_id, Tail(items))

\* Database.log_meal taking the meal id before the INSERT that assigns it
db_log_meal_stale_rowid(db, meal, user_id) ==
    LET totals == MealTotals(meal.items)
        meal_id == Len(db.meals)
        row == [id |-> Len(db.meals) + 1, user_id |-> user_id, dt |-> meal.meal_date,
                meal_type |-> meal.meal_type, total_cal |-> totals.calories,
                protein_g |-> totals.protein_g, carb_g |-> totals.carb_g,
                fat_g |-> totals.fat_g]
    IN  [db |-> [meals |-> Append(db.meals, row),
                 meal_items |-> InsertItems(db.meal_items, meal_id, meal.items)],
         meal_id |-> meal_id]

\* Database.log_meal(meal, user_id): [db, meal_id]
db_log_meal(db, meal, user_id) ==
    LET totals == MealTotals(meal.items)
        meal_id == Len(db.meals) + 1
        row == [id |-> meal_id, user_id |-> user_id, dt |-> meal.meal_date,
                meal_type |-> meal.meal_type, total_cal |-> totals.calories,
                protein_g |-> totals.protein_g, carb_g |-> totals.carb_g,
                fat_g |-> totals.fat_g]
    IN  [db |-> [meals |-> Append(db.meals, row),
                 meal_items |-> InsertItems(db.meal_items, meal_id, meal.items)],
         meal_id |-> meal_id]

\* dict(row) of a row of meals
MealRowDict(row) ==
    <<[k |-> "id", v |-> row.id], [k |-> "user_id", v |-> row.user_id],
      [k |-> "dt", v |-> row.dt], [k |-> "meal_type", v |-> row.meal_type],
      [k |-> "total_cal", v |-> row.total_cal], [k |-> "protein_g", v |-> row.protein_g],
      [k |-> "carb_g", v |-> row.carb_g], [k |-> "fat_g", v |-> row.fat_g]>>

\* Database.meals_for_date(day, user_id), as rows
meals_for_date(db, day, user_id) ==
    SelectSeq(db.meals, LAMBDA row : row.user_id = user_id /\ row.dt = day)

\* Database.daily_totals(day, user_id)
daily_totals(db, day, user_id) ==
    LET rows == meals_for_date(db, day, user_id)
    IN  macro_totals([i \in DOMAIN rows |-> MealRowDict(rows[i])])

-----------------------------------------------------------------------------
(* Logging meals: tools/calorie_tracker.py *)

\* [raised, item, g]: raised when grams <= 0 or the food is unknown
_meal_item_from_reference(g, food_name, grams) ==
    IF RLeq(grams, Num(0)) THEN [raised |-> TRUE, item |-> <<>>, g |-> g]
    ELSE LET r == _match_food(g, food_name)
             factor == RDiv(grams, Num(100))
         IN  IF r.raised THEN [raised |-> TRUE, item |-> <<>>, g |-> r.g]
             ELSE [raised |-> FALSE,
                   item |-> [name |-> str_title(r.name), quantity |-> grams, unit |-> "g",
                             calories |-> RMul(r.payload.calories, factor),
                             protein_g |-> RMul(r.payload.protein_g, factor),
                             carb_g |-> RMul(r.payload.carb_g, factor),
                             fat_g |-> RMul(r.payload.fat_g, factor),
                             estimated |-> FALSE],
                   g |-> r.g]

NotLogged(g, db) ==
    [raised |-> TRUE, g |-> g, db |-> db, meal_id |-> 0, items |-> <<>>,
     totals |-> <<>>, daily_totals |-> <<>>]

\* what a logging call returns after Database.log_meal
Logged(g, db, items, date, meal_type) ==
    LET meal == [meal_type |-> meal_type, meal_date |-> date, items |-> items]
        stored == db_log_meal(db, meal, 1)
    IN  [raised |-> FALSE, g |-> g, db |-> stored.db, meal_id |-> stored.meal_id,
         items |-> items, totals |-> MealTotals(items),
         daily_totals |-> daily_totals(stored.db, date, 1)]

\* log_reference_food: [raised, g, db, meal_id, items, totals, daily_totals]
log_reference_food(g, db, food_name, grams, date, meal_type) ==
    LET r == _meal_item_from_reference(g, food_name, grams)
    IN  IF r.raised THEN NotLogged(r.g, db)
        ELSE Logged(r.g, db, <<r.item>>, date, meal_type)

\* log_meal storing whatever the parser returned, an empty list included
log_meal_without_empty_check(g, db, text, date, meal_type) ==
    LET r == _parse_description(g, text)
    IN  IF r.raised THEN NotLogged(r.g, db)
        ELSE Logged(r.g, db, r.items, date, meal_type)

\* log_meal: [raised, g, db, meal_id, items, totals, daily_totals]
log_meal(g, db, text, date, meal_type) ==
    LET r == _parse_description(g, text)
    IN  IF r.raised THEN NotLogged(r.g, db)
        ELSE IF r.items = <<>> THEN NotLogged(r.g, db)
        ELSE Logged(r.g, db, r.items, date, meal_type)

-----------------------------------------------------------------------------
(* Meals logged one call at a time into one database *)

MaxMeals == 2

LogFile ==
    <<[k |-> "Rice",
       v |-> [calories |-> Num(130), protein_g |-> Rat(27, 10), carb_g |-> Num(28),
              fat_g |-> Rat(3, 10)]],
      [k |-> "Tofu", v |-> Values(76, 8, 2, 5)]>>

LogDescriptions ==
    {"", "and", "2 cup", "1 g rice with 2 cup tofu", "0 rice", "kiwi"}

LogDates == {"2026-01-01", "2026-01-02"}

LogFoods == {"rice", "kiwi"}

LogGrams == {Num(50), Num(0)}

LogInit ==
    /\ REFERENCE_FILE = FileOf(LogFile)
    /\ _REFERENCE_RAW = None
    /\ _REFERENCE_CACHE = None
    /\ _REFERENCE_NAME_MAP = None
    /\ IW_REFERENCE_CACHE = None
    /\ last = NoCall
    /\ threads = NoThreads
    /\ cacheNames = <<>>
    /\ returned = {}
    /\ started = 0
    /\ description = ""
    /\ unitcall = NoCall
    /\ ToolsUnused

LogUnused ==
    <<IW_REFERENCE_CACHE, threads, returned, started, description, unitcall,
      MEAL_PLAN_FILE, recipes_sample, INDEX_FILE, META_FILE, VECTORS_FILE, faiss, args, _conn>>

LogMeal(text, date, meal_type) ==
    \E r \in {log_meal(Globals, Db, text, date, meal_type)} :
        /\ Len(r.db.meals) <= MaxMeals
        /\ SetGlobals(r.g)
        /\ meals' = r.db.meals
        /\ meal_items' = r.db.meal_items
        /\ last' = [op |-> "log_meal", description |-> text, date |-> date,
                    meal_type |-> meal_type, raised |-> r.raised, meal_id |-> r.meal_id,
                    items |-> r.items, totals |-> r.totals,
                    daily_totals |-> r.daily_totals]
        /\ UNCHANGED LogUnused

LogReferenceFood(food_name, grams, date, meal_type) ==
    \E r \in {log_reference_food(Globals, Db, food_name, grams, date, meal_type)} :
        /\ Len(r.db.meals) <= MaxMeals
        /\ SetGlobals(r.g)
        /\ meals' = r.db.meals
        /\ meal_items' = r.db.meal_items
        /\ last' = [op |-> "log_reference_food", food_name |-> food_name,
                    grams |-> grams, date |-> date, meal_type |-> meal_type,
                    raised |-> r.raised, meal_id |-> r.meal_id, items |-> r.items,
                    totals |-> r.totals, daily_totals |-> r.daily_totals]
        /\ UNCHANGED LogUnused

LogNext ==
    \/ \E text \in LogDescriptions, date \in LogDates : LogMeal(text, date, "lunch")
    \/ \E food_name \in LogFoods, grams \in LogGrams, date \in LogDates :
          LogReferenceFood(food_name, grams, date, "snack")

LogSpec == LogInit /\ [][LogNext]_vars

\* the words of a description: the runs between whitespace and commas
WordsOf(text) == str_split_ws(str_replace(text, ",", " "))

\* every word is a connector, a number or a unit keyword
OnlyConnectorsAndQuantities(text) ==
    \A i \in DOMAIN WordsOf(text) :
        LET word == WordsOf(text)[i]
        IN  \/ word \in {"and", "with"}
            \/ ParseFloat(word).ok
            \/ str_lower(word) \in UnitKeywords

\* C13: log_meal on a description with no food name in it (empty, connectors
\* only, quantities and units only) raises and creates no meal row and no
\* meal_items row.
C13_NoItemsRaisesAndStoresNothing ==
    [][(last'.op = "log_meal" /\ OnlyConnectorsAndQuantities(last'.description))
          => (last'.raised /\ UNCHANGED <<meals, meal_items>>)]_vars

\* C13 witness: "2 cup" was rejected with a meal already stored.
C13_Witness ==
    /\ last.op = "log_meal" /\ last.description = "2 cup" /\ last.raised
    /\ Len(meals) = 1 /\ Len(meal_items) = 2

\* the rows of meal_items that belong to a meal
ItemsOfMeal(rows, meal_id) == SelectSeq(rows, LAMBDA row : row.meal_id = meal_id)

\* the stored columns of row i are those of item i
StoredAs(rows, items) ==
    /\ Len(rows) = Len(items)
    /\ \A i \in 1..Len(items) :
          /\ rows[i].name = items[i].name /\ rows[i].qty = items[i].quantity
          /\ rows[i].unit = items[i].unit /\ rows[i].cal = items[i].calories
          /\ rows[i].protein_g = items[i].protein_g /\ rows[i].carb_g = items[i].carb_g
          /\ rows[i].fat_g = items[i].fat_g

\* a successful log_meal step added one meal row for its date and user 1, one
\* meal_items row per parsed item, and changed no earlier row
LogMealAddsOneMeal ==
    /\ Len(meals') = Len(meals) + 1
    /\ SubSeq(meals', 1, Len(meals)) = meals
    /\ meals'[Len(meals')].dt = last'.date
    /\ meals'[Len(meals')].user_id = 1
    /\ meals'[Len(meals')].id = last'.meal_id
    /\ SubSeq(meal_items', 1, Len(meal_items)) = meal_items
    /\ Len(meal_items') = Len(meal_items) + Len(last'.items)
    /\ StoredAs(ItemsOfMeal(meal_items', last'.meal_id), last'.items)
    /\ Len(meals_for_date([meals |-> meals', meal_items |-> meal_items'], last'.date, 1))
          = Len(meals_for_date(Db, last'.date, 1)) + 1
    /\ \A date \in LogDates \ {last'.date} :
          meals_for_date([meals |-> meals', meal_items |-> meal_items'], date, 1)
             = meals_for_date(Db, date, 1)

\* the sum of a column over the rows of meal_items
SumColumn(rows, key) ==
    SumItems([i \in DOMAIN rows |->
                 [calories |-> rows[i].cal, protein_g |-> rows[i].protein_g,
                  carb_g |-> rows[i].carb_g, fat_g |-> rows[i].fat_g]], key)

\* C14 as claimed: each successful log_meal adds one meal record for the date and
\* user and one meal_items row per parsed item, changes no stored row, makes
\* meals_for_date one record longer, and the stored meal totals equal the sums
\* of the meal's item macros.
C14_LogMealStoresExactSums ==
    [][(last'.op = "log_meal" /\ ~last'.raised) =>
          /\ LogMealAddsOneMeal
          /\ LET row == meals'[Len(meals')]
                 rows == ItemsOfMeal(meal_items', last'.meal_id)
             IN  /\ row.total_cal = SumColumn(rows, "calories")
                 /\ row.protein_g = SumColumn(rows, "protein_g")
                 /\ row.carb_g = SumColumn(rows, "carb_g")
                 /\ row.fat_g = SumColumn(rows, "fat_g")]_vars

\* C14 amended: the same, the stored meal totals being the sums of the meal's
\* item macros rounded to 2 decimals.
C14_LogMealStoresRoundedSums ==
    [][(last'.op = "log_meal" /\ ~last'.raised) =>
          /\ LogMealAddsOneMeal
          /\ LET row == meals'[Len(meals')]
                 rows == ItemsOfMeal(meal_items', last'.meal_id)
             IN  /\ row.total_cal = round_2(SumColumn(rows, "calories"))
                 /\ row.protein_g = round_2(SumColumn(rows, "protein_g"))
                 /\ row.carb_g = round_2(SumColumn(rows, "carb_g"))
                 /\ row.fat_g = round_2(SumColumn(rows, "fat_g"))]_vars

\* C14 witness: the second meal of a date was logged with two items, after a
\* meal with other items.
C14_Witness ==
    /\ last.op = "log_meal" /\ ~last.raised
    /\ Len(meals_for_date(Db, last.date, 1)) = 2
    /\ Len(ItemsOfMeal(meal_items, last.meal_id)) = 2
    /\ Len(meal_items) > 2

\* C15: every stored item has a quantity above zero.
C15_StoredQuantitiesArePositive ==
    \A i \in DOMAIN meal_items : RLess(Num(0), meal_items[i].qty)

-----------------------------------------------------------------------------
(* macro_totals applied to one collection of dicts *)

MaxItems == 2

Macros(c, p, cb, f) ==
    <<[k |-> "calories", v |-> c], [k |-> "protein_g", v |-> p], [k |-> "carb_g", v |-> cb],
      [k |-> "fat_g", v |-> f]>>

\* items as the callers pass them: complete ones, ones lacking fields, a row of
\* the table meals, an empty dict
TotalsDicts ==
    {Macros(Num(100), Num(10), Num(20), Num(5)),
     Macros(Num(150), Num(5), Num(10), Num(2)),
     Macros(Rat(1301, 1000), Rat(27, 1000), Rat(7, 25), Rat(3, 1000)),
     <<[k |-> "calories", v |-> Num(1)]>>,
     <<[k |-> "protein_g", v |-> Rat(2556, 1000)], [k |-> "fat_g", v |-> Num(3)]>>,
     <<[k |-> "carb_g", v |-> Rat(-1, 3)]>>,
     <<[k |-> "total_cal", v |-> Num(130)], [k |-> "protein_g", v |-> Num(3)],
       [k |-> "carb_g", v |-> Num(28)], [k |-> "fat_g", v |-> Num(0)]>>,
     <<>>}

RECURSIVE Collections(_)
\* the sequences of at most n of those dicts
Collections(n) ==
    IF n = 0 THEN {<<>>}
    ELSE Collections(n - 1)
            \cup {Append(c, d) : c \in {x \in Collections(n - 1) : Len(x) = n - 1},
                                 d \in TotalsDicts}

TotalsInit ==
    /\ REFERENCE_FILE = FileOf(<<>>)
    /\ _REFERENCE_RAW = None
    /\ _REFERENCE_CACHE = None
    /\ _REFERENCE_NAME_MAP = None
    /\ IW_REFERENCE_CACHE = None
    /\ last = NoCall
    /\ threads = NoThreads
    /\ cacheNames = <<>>
    /\ returned = {}
    /\ started = 0
    /\ description = ""
    /\ unitcall = NoCall
    /\ meals = <<>>
    /\ meal_items = <<>>
    /\ MEAL_PLAN_FILE = <<>>
    /\ recipes_sample = <<>>
    /\ INDEX_FILE = FALSE
    /\ META_FILE = None
    /\ VECTORS_FILE = None
    /\ faiss = FALSE
    /\ args \in {[items |-> c] : c \in Collections(MaxItems)}
    /\ _conn = NoTransaction

MacroTotals ==
    /\ last = NoCall
    /\ last' = [op |-> "macro_totals", items |-> args.items,
                ret |-> macro_totals(args.items)]
    /\ UNCHANGED <<storeVars, threads, cacheNames, returned, started, description,
                   unitcall, toolVars>>

TotalsNext == MacroTotals

TotalsSpec == TotalsInit /\ [][TotalsNext]_vars

RECURSIVE FieldSum(_, _)
\* the sum of a field over the items, an item without the field counting 0
FieldSum(items, key) ==
    IF items = <<>> THEN Num(0)
    ELSE LET here == {i \in DOMAIN Head(items) : Head(items)[i].k = key}
         IN  RAdd(IF here = {} THEN Num(0) ELSE Head(items)[CHOOSE i \in here : TRUE].v,
                  FieldSum(Tail(items), key))

\* C16: for every collection, the empty one included, the totals have the four
\* fields calories, protein_g, carb_g, fat_g, each the 2-decimal rounding of the
\* sum of the field over the items, a missing field counting 0.
C16_TotalsHaveFourRoundedSums ==
    last.op = "macro_totals" =>
        \A i \in DOMAIN MacroKeys :
            /\ DictHas(last.ret, MacroKeys[i])
            /\ DictGet(last.ret, MacroKeys[i]) = round_2(FieldSum(last.items, MacroKeys[i]))

-----------------------------------------------------------------------------
(* The meal planner: tools/meal_planner.py.  A corpus row is a record of the
   CSV's columns, every value a string. *)

\* _bool(value)
_bool(value) == str_strip(value) \in {"1", "true", "True"}

\* the (field, label) pairs of _meal_satisfies
DietFields ==
    <<[field |-> "vegan", label |-> "vegan"],
      [field |-> "vegetarian", label |-> "vegetarian"],
      [field |-> "keto", label |-> "keto"],
      [field |-> "paleo", label |-> "paleo"],
      [field |-> "gluten_free", label |-> "gluten-free"],
      [field |-> "mediterranean", label |-> "mediterranean"],
      [field |-> "is_healthy", label |-> "healthy"]>>

\* the list tags of _meal_satisfies
MealTags(meal) ==
    LET set == SelectSeq(DietFields, LAMBDA pair : _bool(meal[pair.field]))
    IN  [i \in DOMAIN set |-> set[i].label]

\* the row after meal["tags"] = ",".join(tags)
Tagged(meal) ==
    [f \in DOMAIN meal \cup {"tags"} |->
        IF f = "tags" THEN str_join(",", MealTags(meal)) ELSE meal[f]]

_meal_satisfies(meal, targets) ==
    LET tags == MealTags(meal)
        name == str_lower(meal.meal_name)
    IN  IF /\ targets.diet_tags # <<>>
           /\ ~\E i \in DOMAIN targets.diet_tags, j \in DOMAIN tags :
                 targets.diet_tags[i] = tags[j]
        THEN FALSE
        ELSE ~\E i \in DOMAIN targets.exclusions :
                 /\ targets.exclusions[i] # ""
                 /\ str_contains(str_lower(targets.exclusions[i]), name)

\* _filter_meals returning the filtered list even when it is empty
_filter_meals_without_fallback(rows, targets) ==
    SelectSeq([i \in DOMAIN rows |-> Tagged(rows[i])],
              LAMBDA meal : _meal_satisfies(meal, targets))

_filter_meals(rows, targets) ==
    LET tagged == [i \in DOMAIN rows |-> Tagged(rows[i])]
        filtered == SelectSeq(tagged, LAMBDA meal : _meal_satisfies(meal, targets))
    IN  IF filtered # <<>> THEN filtered ELSE tagged

\* float(meal.get(column) or 0.0)
CsvFloat(value) == IF value = "" THEN Num(0) ELSE ParseFloat(value).value

_build_plan_meal(meal, meal_type) ==
    [name |-> meal.meal_name, meal_type |-> meal_type,
     items |-> <<[name |-> meal.meal_name, quantity |-> Num(1), unit |-> "serving",
                  calories |-> RMul(CsvFloat(meal.calories), Num(900)),
                  protein_g |-> RMul(CsvFloat(meal.protein), Num(100)),
                  carb_g |-> RMul(CsvFloat(meal.carbs), Num(100)),
                  fat_g |-> RMul(CsvFloat(meal.fat), Num(100)),
                  estimated |-> TRUE]>>,
     notes |-> meal.tags]

RECURSIVE SumMealTotals(_, _)
\* the loop of PlanDay.totals over the meals' rounded totals
SumMealTotals(plan_meals, key) ==
    IF plan_meals = <<>> THEN Num(0)
    ELSE RAdd(MealTotals(Head(plan_meals).items)[key],
              SumMealTotals(Tail(plan_meals), key))

\* PlanDay.totals()
PlanDayTotals(plan_meals) ==
    [calories |-> round_2(SumMealTotals(plan_meals, "calories")),
     protein_g |-> round_2(SumMealTotals(plan_meals, "protein_g")),
     carb_g |-> round_2(SumMealTotals(plan_meals, "carb_g")),
     fat_g |-> round_2(SumMealTotals(plan_meals, "fat_g"))]

\* clamp_calories(calories), minimum 1200.0
clamp_calories(calories) == IF RLess(calories, Num(1200)) THEN Num(1200) ELSE calories

ScaledItem(item, scale) ==
    [name |-> item.name, quantity |-> RMul(item.quantity, scale), unit |-> item.unit,
     calories |-> RMul(item.calories, scale), protein_g |-> RMul(item.protein_g, scale),
     carb_g |-> RMul(item.carb_g, scale), fat_g |-> RMul(item.fat_g, scale),
     estimated |-> TRUE]

\* RescaleDay scaling to the target itself, without the 1200 floor
RescaleDay_without_floor(meals_for_day, targets) ==
    LET total == PlanDayTotals(meals_for_day).calories
        scale == RDiv(Num(targets.calories),
                      IF RLess(total, Num(1)) THEN Num(1) ELSE total)
    IN  IF RLess(total, RMul(Num(targets.calories), Rat(8, 10)))
        THEN [i \in DOMAIN meals_for_day |->
                 [meals_for_day[i] EXCEPT
                     !.items = [j \in DOMAIN @ |-> ScaledItem(@[j], scale)]]]
        ELSE meals_for_day

\* lines 94-115: the meals of the day, scaled up when the day falls short
RescaleDay(meals_for_day, targets) ==
    LET total == PlanDayTotals(meals_for_day).calories
        scale == RDiv(clamp_calories(Num(targets.calories)),
                      IF RLess(total, Num(1)) THEN Num(1) ELSE total)
    IN  IF RLess(total, RMul(Num(targets.calories), Rat(8, 10)))
        THEN [i \in DOMAIN meals_for_day |->
                 [meals_for_day[i] EXCEPT
                     !.items = [j \in DOMAIN @ |-> ScaledItem(@[j], scale)]]]
        ELSE meals_for_day

\* lines 83-85
MealTypes(targets) ==
    IF targets.meals_per_day = 4 THEN <<"breakfast", "lunch", "dinner", "snack">>
    ELSE <<"breakfast", "lunch", "dinner">>

\* lines 87-92 for the day at offset: pointer has advanced meals_per_day per day
MealsForDay(filtered, targets, offset) ==
    IF targets.meals_per_day <= 0 THEN <<>>
    ELSE [idx \in 1..targets.meals_per_day |->
             _build_plan_meal(
                 filtered[((offset * targets.meals_per_day + idx - 1) % Len(filtered)) + 1],
                 MealTypes(targets)[((idx - 1) % Len(MealTypes(targets))) + 1])]

\* generate_plan: [raised, unscaled, days]; raised is the ZeroDivisionError of
\* pointer % len(filtered); unscaled records each day as built at line 93
generate_plan(corpus, targets, days) ==
    LET filtered == _filter_meals(corpus, targets)
    IN  IF days <= 0 THEN [raised |-> FALSE, unscaled |-> <<>>, days |-> <<>>]
        ELSE IF targets.meals_per_day > 0 /\ filtered = <<>>
        THEN [raised |-> TRUE, unscaled |-> <<>>, days |-> <<>>]
        ELSE [raised |-> FALSE,
              unscaled |-> [d \in 1..days |->
                               [date |-> d - 1,
                                meals |-> MealsForDay(filtered, targets, d - 1)]],
              days |-> [d \in 1..days |->
                           [date |-> d - 1,
                            meals |-> RescaleDay(MealsForDay(filtered, targets, d - 1),
                                                 targets)]]]

-----------------------------------------------------------------------------
(* generate_plan applied to one corpus and one set of targets *)

MaxDays == 2

PlanRow(meal_name, calories, vegan, keto) ==
    [meal_name |-> meal_name, calories |-> calories, protein |-> "0.2", carbs |-> "0.35",
     fat |-> "", vegan |-> vegan, vegetarian |-> vegan, keto |-> keto, paleo |-> "0",
     gluten_free |-> "", mediterranean |-> "false", is_healthy |-> "1"]

\* corpora: none, one of mixed meals, and ones whose days total under 1 kcal
Corpora ==
    {<<>>,
     <<PlanRow("Oat Bowl", "0.5", "1", "0"), PlanRow("Salmon Plate", "0.8", "0", "True"),
       PlanRow("Green Tea", "", " true ", "0")>>,
     <<PlanRow("Green Tea", "", "1", "0")>>,
     <<PlanRow("Broth", "0.0005", "0", "1")>>}

PlanTargets ==
    [calories : {1000, 2000},
     diet_tags : {<<>>, <<"vegan">>, <<"raw", "Keto">>},
     exclusions : {<<>>, <<"", "SALMON">>, <<"a", "o">>},
     meals_per_day : {0, 1, 3, 4}]

PlanInit ==
    /\ REFERENCE_FILE = FileOf(<<>>)
    /\ _REFERENCE_RAW = None
    /\ _REFERENCE_CACHE = None
    /\ _REFERENCE_NAME_MAP = None
    /\ IW_REFERENCE_CACHE = None
    /\ last = NoCall
    /\ threads = NoThreads
    /\ cacheNames = <<>>
    /\ returned = {}
    /\ started = 0
    /\ description = ""
    /\ unitcall = NoCall
    /\ meals = <<>>
    /\ meal_items = <<>>
    /\ MEAL_PLAN_FILE \in Corpora
    /\ recipes_sample = <<>>
    /\ INDEX_FILE = FALSE
    /\ META_FILE = None
    /\ VECTORS_FILE = None
    /\ faiss = FALSE
    /\ args \in [targets : PlanTargets, days : 0..MaxDays]
    /\ _conn = NoTransaction

GeneratePlan ==
    \E r \in {generate_plan(MEAL_PLAN_FILE, args.targets, args.days)} :
        /\ last = NoCall
        /\ last' = [op |-> "generate_plan", targets |-> args.targets, days |-> args.days,
                    raised |-> r.raised, unscaled |-> r.unscaled, ret |-> r.days]
        /\ UNCHANGED <<storeVars, threads, cacheNames, returned, started, description,
                       unitcall, toolVars>>

PlanNext == GeneratePlan

PlanSpec == PlanInit /\ [][PlanNext]_vars

\* no row of the corpus passes the diet tags and exclusions
FiltersEliminateAll(corpus, targets) ==
    \A i \in DOMAIN corpus : ~_meal_satisfies(corpus[i], targets)

\* the plan has n days of m meals each, taken in rotation from the whole corpus
\* when the filters leave nothing
PlanHasEveryMeal ==
    LET m == last.targets.meals_per_day
        corpus == MEAL_PLAN_FILE
    IN  /\ ~last.raised
        /\ Len(last.ret) = last.days
        /\ \A d \in DOMAIN last.ret : Len(last.ret[d].meals) = m
        /\ FiltersEliminateAll(corpus, last.targets) =>
              \A d \in DOMAIN last.ret : \A j \in DOMAIN last.ret[d].meals :
                  last.ret[d].meals[j].name
                     = corpus[(((d - 1) * m + j - 1) % Len(corpus)) + 1].meal_name

\* C17 as claimed: for every corpus, diet tags and exclusions the plan has exactly
\* n days of exactly m meals, from the unfiltered corpus when the filters
\* eliminate every meal.
C17_PlanHasDaysAndMeals == last.op = "generate_plan" => PlanHasEveryMeal

\* C17 amended: the same for every corpus that has at least one meal.
C17_PlanHasDaysAndMealsOfCorpus ==
    (last.op = "generate_plan" /\ MEAL_PLAN_FILE # <<>>) => PlanHasEveryMeal

\* C17 witness: no meal of a three-meal corpus passed the filters and the plan
\* has two days of four meals.
C17_Witness ==
    /\ last.op = "generate_plan" /\ ~last.raised
    /\ Len(MEAL_PLAN_FILE) = 3 /\ FiltersEliminateAll(MEAL_PLAN_FILE, last.targets)
    /\ Len(last.ret) = 2 /\ Len(last.ret[2].meals) = 4

\* a day's total calories as PlanDay.totals reports them
DayCalories(plan_meals) ==
    round_2(SumItems([i \in DOMAIN plan_meals |->
                         [calories |-> round_2(SumItems(plan_meals[i].items, "calories")),
                          protein_g |-> Num(0), carb_g |-> Num(0), fat_g |-> Num(0)]],
                     "calories"))

\* max(target, 1200)
TargetOrFloor(target) == IF target < 1200 THEN Num(1200) ELSE Num(target)

BelowTarget(plan_meals, target) == RLess(DayCalories(plan_meals), Rat(8 * target, 10))

\* every item of the day is the item before, its quantity and macros times scale
ItemsScaled(before, after, WithScale(_, _)) ==
    /\ Len(after) = Len(before)
    /\ \A i \in DOMAIN before :
          /\ Len(after[i].items) = Len(before[i].items)
          /\ after[i].name = before[i].name /\ after[i].meal_type = before[i].meal_type
          /\ \A j \in DOMAIN before[i].items :
                LET old == before[i].items[j]
                    new == after[i].items[j]
                IN  /\ new.name = old.name /\ new.unit = old.unit /\ new.estimated
                    /\ WithScale(old.quantity, new.quantity)
                    /\ WithScale(old.calories, new.calories)
                    /\ WithScale(old.protein_g, new.protein_g)
                    /\ WithScale(old.carb_g, new.carb_g)
                    /\ WithScale(old.fat_g, new.fat_g)

C30_EveryDayReachesTarget ==
    (last.op = "generate_plan" /\ ~last.raised) =>
        \A d \in DOMAIN last.ret :
            LET before == last.unscaled[d].meals
                after == last.ret[d].meals
                target == last.targets.calories
            IN  /\ ~BelowTarget(after, target)
                /\ BelowTarget(before, target) =>
                      DayCalories(after) = TargetOrFloor(target)

-----------------------------------------------------------------------------
(* The grocery list: tools/grocery_list.py *)

CATEGORY_MAP ==
    <<[k |-> "spinach", v |-> "Produce"], [k |-> "kale", v |-> "Produce"],
      [k |-> "broccoli", v |-> "Produce"], [k |-> "chicken", v |-> "Protein"],
      [k |-> "beef", v |-> "Protein"], [k |-> "salmon", v |-> "Protein"],
      [k |-> "tofu", v |-> "Protein"], [k |-> "egg", v |-> "Protein"],
      [k |-> "yogurt", v |-> "Dairy"], [k |-> "milk", v |-> "Dairy"],
      [k |-> "cheese", v |-> "Dairy"], [k |-> "rice", v |-> "Pantry"],
      [k |-> "quinoa", v |-> "Pantry"], [k |-> "pasta", v |-> "Pantry"],
      [k |-> "beans", v |-> "Pantry"]>>

\* the category of the first key, in dict order, that the lowercased name contains
_categorize(name) ==
    LET name_lower == str_lower(name)
        found == {i \in DOMAIN CATEGORY_MAP : str_contains(CATEGORY_MAP[i].k, name_lower)}
    IN  IF found = {} THEN "Other"
        ELSE CATEGORY_MAP[CHOOSE i \in found : \A j \in found : i <= j].v

\* the items of the plan in the order of the three nested loops
PlanItems(plan) ==
    Flatten([d \in DOMAIN plan |->
                Flatten([m \in DOMAIN plan[d].meals |-> plan[d].meals[m].items])])

RECURSIVE AggregateByName(_, _)
\* the loop body keyed on the name as written, not lowercased
AggregateByName(items, aggregate) ==
    IF items = <<>> THEN aggregate
    ELSE LET n == normalize_unit(Head(items).quantity, Head(items).unit)
             key == <<Head(items).name, n[2]>>
             sofar == IF DictHas(aggregate, key) THEN DictGet(aggregate, key) ELSE Num(0)
         IN  AggregateByName(Tail(items), DictSet(aggregate, key, RAdd(sofar, n[1])))

RECURSIVE Aggregate(_, _)
\* lines 48-53: aggregate[key] = aggregate.get(key, 0.0) + qty for each item
Aggregate(items, aggregate) ==
    IF items = <<>> THEN aggregate
    ELSE LET n == normalize_unit(Head(items).quantity, Head(items).unit)
             key == <<str_lower(Head(items).name), n[2]>>
             sofar == IF DictHas(aggregate, key) THEN DictGet(aggregate, key) ELSE Num(0)
         IN  Aggregate(Tail(items), DictSet(aggregate, key, RAdd(sofar, n[1])))

\* (name, unit) tuples in the order sorted() gives them
KeyLess(a, b) == str_less(a[1], b[1]) \/ (a[1] = b[1] /\ str_less(a[2], b[2]))

RECURSIVE SortedByKey(_)
\* sorted(aggregate.items()): the keys are distinct, so they alone decide
SortedByKey(entries) ==
    IF entries = <<>> THEN <<>>
    ELSE LET least == CHOOSE i \in DOMAIN entries :
                          \A j \in DOMAIN entries : j # i => KeyLess(entries[i].k, entries[j].k)
         IN  <<entries[least]>>
                \o SortedByKey([j \in 1..(Len(entries) - 1) |->
                                   IF j < least THEN entries[j] ELSE entries[j + 1]])

GroceryItemOf(entry) ==
    [category |-> _categorize(entry.k[1]), name |-> str_title(entry.k[1]),
     quantity |-> entry.v, unit |-> entry.k[2]]

\* build_list_from_plan keeping names that differ in case apart
build_list_from_plan_case_sensitive(plan) ==
    LET ordered == SortedByKey(AggregateByName(PlanItems(plan), <<>>))
    IN  [i \in DOMAIN ordered |-> GroceryItemOf(ordered[i])]

build_list_from_plan(plan) ==
    LET ordered == SortedByKey(Aggregate(PlanItems(plan), <<>>))
    IN  [i \in DOMAIN ordered |-> GroceryItemOf(ordered[i])]

-----------------------------------------------------------------------------
(* build_list_from_plan applied to one plan *)

MaxPlanDays == 2

PlanItem(name, quantity, unit) ==
    [name |-> name, quantity |-> quantity, unit |-> unit, calories |-> Num(100),
     protein_g |-> Num(5), carb_g |-> Num(10), fat_g |-> Num(2), estimated |-> TRUE]

PlanMealOf(items) == [name |-> "meal", meal_type |-> "lunch", items |-> items, notes |-> ""]

\* days of a plan: items repeated under other spellings and units, a day
\* without a meal, a meal without an item
GroceryDays ==
    {[date |-> 0, meals |-> <<PlanMealOf(<<PlanItem("Rice", Num(1), "cup"),
                                          PlanItem("rice", Num(100), "g")>>)>>],
     [date |-> 0, meals |-> <<PlanMealOf(<<PlanItem("RICE", Num(2), "serving")>>),
                              PlanMealOf(<<PlanItem("Tofu", Num(1), "kg")>>)>>],
     [date |-> 0, meals |-> <<PlanMealOf(<<PlanItem("tofu", Num(500), "g"),
                                          PlanItem("Tofu", Num(1), "Serving")>>)>>],
     [date |-> 0, meals |-> <<>>],
     [date |-> 0, meals |-> <<PlanMealOf(<<PlanItem("Rice", Rat(8, 3), "serving")>>),
                              PlanMealOf(<<>>),
                              PlanMealOf(<<PlanItem("Brown Rice", Num(1), "piece")>>)>>],
     [date |-> 0, meals |-> <<PlanMealOf(<<PlanItem("Tofu", Num(2), "TBSP")>>)>>],
     [date |-> 0, meals |-> <<PlanMealOf(<<PlanItem("Egg", Num(2), "pcs"),
                                          PlanItem("egg", Num(1), "pieces")>>)>>]}

RECURSIVE GroceryPlans(_)
\* the plans of at most n of those days
GroceryPlans(n) ==
    IF n = 0 THEN {<<>>}
    ELSE GroceryPlans(n - 1)
            \cup {Append(plan, day) : plan \in {x \in GroceryPlans(n - 1) : Len(x) = n - 1},
                                      day \in GroceryDays}

GroceryInit ==
    /\ REFERENCE_FILE = FileOf(<<>>)
    /\ _REFERENCE_RAW = None
    /\ _REFERENCE_CACHE = None
    /\ _REFERENCE_NAME_MAP = None
    /\ IW_REFERENCE_CACHE = None
    /\ last = NoCall
    /\ threads = NoThreads
    /\ cacheNames = <<>>
    /\ returned = {}
    /\ started = 0
    /\ description = ""
    /\ unitcall = NoCall
    /\ meals = <<>>
    /\ meal_items = <<>>
    /\ MEAL_PLAN_FILE = <<>>
    /\ recipes_sample = <<>>
    /\ INDEX_FILE = FALSE
    /\ META_FILE = None
    /\ VECTORS_FILE = None
    /\ faiss = FALSE
    /\ args \in {[plan |-> plan] : plan \in GroceryPlans(MaxPlanDays)}
    /\ _conn = NoTransaction

BuildListFromPlan ==
    \E r \in {build_list_from_plan(args.plan)} :
        /\ last = NoCall
        /\ last' = [op |-> "build_list_from_plan", plan |-> args.plan, ret |-> r]
        /\ UNCHANGED <<storeVars, threads, cacheNames, returned, started, description,
                       unitcall, toolVars>>

GroceryNext == BuildListFromPlan

GrocerySpec == GroceryInit /\ [][GroceryNext]_vars

\* the (day, meal, item) positions of the plan
Positions(plan) ==
    {<<d, m, i>> \in (DOMAIN plan) \X (1..3) \X (1..2) :
        m \in DOMAIN plan[d].meals /\ i \in DOMAIN plan[d].meals[m].items}

ItemAt(plan, pos) == plan[pos[1]].meals[pos[2]].items[pos[3]]

\* the unit of an item after normalization: "g" for a unit of the table
UnitOf(item) ==
    IF str_lower(item.unit) \in ConvertedUnits THEN "g" ELSE item.unit

\* its quantity after normalization
QuantityOf(item) ==
    IF str_lower(item.unit) \in ConvertedUnits
    THEN RMul(item.quantity, DocumentedFactor(str_lower(item.unit)))
    ELSE item.quantity

\* the plan items an entry of the list stands for
Behind(plan, entry) ==
    {pos \in Positions(plan) :
        /\ str_lower(ItemAt(plan, pos).name) = str_lower(entry.name)
        /\ UnitOf(ItemAt(plan, pos)) = entry.unit}

RECURSIVE SumOver(_, _)
\* the sum of the normalized quantities at a set of positions
SumOver(plan, positions) ==
    IF positions = {} THEN Num(0)
    ELSE LET pos == CHOOSE p \in positions : TRUE
         IN  RAdd(QuantityOf(ItemAt(plan, pos)), SumOver(plan, positions \ {pos}))

\* C19: the list has at most one entry per (lowercased name, normalized unit),
\* each entry's quantity is the sum of the normalized quantities of the plan
\* items with that name and unit over all days and meals, and every plan item
\* is behind some entry.
C19_GroceryListSumsByNameAndUnit ==
    last.op = "build_list_from_plan" =>
        /\ \A i, j \in DOMAIN last.ret :
              (/\ str_lower(last.ret[i].name) = str_lower(last.ret[j].name)
               /\ last.ret[i].unit = last.ret[j].unit) => i = j
        /\ \A i \in DOMAIN last.ret :
              /\ Behind(last.plan, last.ret[i]) # {}
              /\ last.ret[i].quantity = SumOver(last.plan, Behind(last.plan, last.ret[i]))
        /\ \A pos \in Positions(last.plan) :
              \E i \in DOMAIN last.ret : pos \in Behind(last.plan, last.ret[i])

\* C19 witness: 1 cup of Rice and 100 g of rice are one entry of 340 g, beside
\* an entry of Rice by the serving from another day.
C19_Witness ==
    /\ last.op = "build_list_from_plan"
    /\ Len(last.plan) = 2
    /\ \E i \in DOMAIN last.ret :
          /\ last.ret[i].name = "Rice" /\ last.ret[i].unit = "g"
          /\ last.ret[i].quantity = Num(340)
    /\ \E i \in DOMAIN last.ret :
          /\ last.ret[i].name = "Rice" /\ last.ret[i].unit = "serving"

-----------------------------------------------------------------------------
(* The retrieval index: core/embeddings.py.  SHA-256 and the 128 dimensions are
   not modelled: the digest of a text is its length modulo 5 and selects one of
   five vectors of dimension 2 whose norms are whole numbers, so that every
   score is an exact rational.  What build_index and retrieve do with the
   vectors depends on neither. *)

HashVectors == <<<<3, 4>>, <<4, 3>>, <<-3, 4>>, <<5, 0>>, <<0, -5>>>>

\* _hash_embed(text): a fixed function of the text
_hash_embed(text) ==
    LET v == HashVectors[(Len(text) % Len(HashVectors)) + 1]
    IN  [i \in DOMAIN v |-> Num(v[i])]

\* the whole number whose square is n
ISqrt(n) == CHOOSE r \in 0..n : r * r = n

RECURSIVE SumSquares(_)
SumSquares(vec) ==
    IF vec = <<>> THEN Num(0) ELSE RAdd(RMul(Head(vec), Head(vec)), SumSquares(Tail(vec)))

\* _normalize(vec): a norm of zero is replaced by 1.0
_normalize(vec) ==
    LET square == SumSquares(vec)
        norm == IF square = Num(0) THEN Num(1)
                ELSE Rat(ISqrt(square[1]), ISqrt(square[2]))
    IN  [i \in DOMAIN vec |-> RDiv(vec[i], norm)]

RECURSIVE _dot(_, _)
\* sum(x * y for x, y in zip(a, b))
_dot(a, b) ==
    IF a = <<>> \/ b = <<>> THEN Num(0)
    ELSE RAdd(RMul(Head(a), Head(b)), _dot(Tail(a), Tail(b)))

_get_embeddings(texts) == [i \in DOMAIN texts |-> _normalize(_hash_embed(texts[i]))]

\* the RecipeDocument of line idx (from 0) of the CSV, a row of nine fields
RecipeDocumentOf(parts, idx) ==
    LET tags == str_split(parts[4], ";")
    IN  [recipe_id |-> idx, title |-> parts[1],
         text |-> parts[1] \o "\n" \o str_replace(parts[2], "|", ", ") \o "\n" \o parts[3]
                     \o "\n" \o "Tags: " \o parts[4],
         tags |-> SelectSeq([i \in DOMAIN tags |-> str_strip(tags[i])],
                            LAMBDA t : t # ""),
         servings |-> IF parts[9] = "" THEN 1 ELSE RFloor(ParseFloat(parts[9]).value),
         calories |-> CsvFloat(parts[5]), protein_g |-> CsvFloat(parts[6]),
         carb_g |-> CsvFloat(parts[7]), fat_g |-> CsvFloat(parts[8])]

\* _load_raw_documents(): a line of fewer than nine fields is skipped
_load_raw_documents(lines) ==
    LET kept == SelectSeq([i \in DOMAIN lines |-> [idx |-> i - 1, parts |-> lines[i]]],
                          LAMBDA line : Len(line.parts) >= 9)
    IN  [i \in DOMAIN kept |-> RecipeDocumentOf(kept[i].parts, kept[i].idx)]

\* the index files and what they are built from
Index ==
    [lines |-> recipes_sample, index |-> INDEX_FILE, meta |-> META_FILE,
     vectors |-> VECTORS_FILE, faiss |-> faiss]

\* build_index(force): the index files after the call
build_index(ix, force) ==
    IF ix.index /\ ix.meta.set /\ ix.vectors.set /\ ~force THEN ix
    ELSE LET documents == _load_raw_documents(ix.lines)
             vectors == _get_embeddings([i \in DOMAIN documents |-> documents[i].text])
         IN  [ix EXCEPT !.index = ix.index \/ ix.faiss,
                        !.meta = Some(documents),
                        !.vectors = Some(vectors)]

\* the files after _load_index(), which returns (vectors.d, meta.d) of them
_load_index(ix) == IF ~ix.meta.set \/ ~ix.vectors.set THEN build_index(ix, FALSE) ELSE ix

RECURSIVE InsertByScore(_, _)
\* e placed after every pair whose score is not lower
InsertByScore(sorted, e) ==
    IF sorted = <<>> THEN <<e>>
    ELSE IF RLess(Head(sorted).score, e.score) THEN <<e>> \o sorted
    ELSE <<Head(sorted)>> \o InsertByScore(Tail(sorted), e)

RECURSIVE SortByScore(_)
\* scored.sort(key=lambda item: item[1], reverse=True): stable, highest first
SortByScore(scored) ==
    IF scored = <<>> THEN <<>>
    ELSE InsertByScore(SortByScore(SubSeq(scored, 1, Len(scored) - 1)),
                       scored[Len(scored)])

\* scored[:k]
Slice(scored, k) ==
    IF k >= 0 THEN SubSeq(scored, 1, IF k < Len(scored) THEN k ELSE Len(scored))
    ELSE SubSeq(scored, 1, IF Len(scored) + k > 0 THEN Len(scored) + k ELSE 0)

\* the pairs of zip(vectors, meta), scored against the query vector
Scored(vectors, meta, query_vec) ==
    [i \in 1..(IF Len(vectors) < Len(meta) THEN Len(vectors) ELSE Len(meta)) |->
        [doc |-> meta[i], score |-> _dot(vectors[i], query_vec)]]

\* retrieve with equal scores in reverse corpus order
retrieve_ties_reversed(ix, query, k) ==
    Only({[ix |-> loaded,
           ret |-> Slice(SortByScore([i \in DOMAIN scored |->
                                         scored[Len(scored) + 1 - i]]), k)] :
             loaded \in {_load_index(ix)},
             scored \in {Scored(_load_index(ix).vectors.d, _load_index(ix).meta.d,
                                _normalize(_hash_embed(query)))}})

\* retrieve(query, k): [ix, ret], ret the (doc, score) pairs
retrieve(ix, query, k) ==
    Only({[ix |-> loaded,
           ret |-> Slice(SortByScore(Scored(loaded.vectors.d, loaded.meta.d, query_vec)), k)] :
             loaded \in {_load_index(ix)},
             query_vec \in {_normalize(_hash_embed(query))}})

-----------------------------------------------------------------------------
(* RetrieveSpec: build_index and retrieve over a static corpus, the index
   files absent at the start. *)

MaxK == 3

\* a line of recipes_sample.csv, split into its nine fields
RecipeLine(title) == <<title, "a|b", "Mix.", "x; y", "450", "20", "30", "10", "2">>

Corpora20 ==
    { <<>>,
      <<RecipeLine("Ab")>>,
      <<RecipeLine("A"), RecipeLine("Abcd"), <<"">>, RecipeLine("A")>>,
      <<RecipeLine("Abcd"), RecipeLine("A"), RecipeLine("Abcde"), RecipeLine("Ab")>> }

Queries == {"", "xy", "tofu"}

RetrieveInit ==
    /\ REFERENCE_FILE = FileOf(<<>>)
    /\ _REFERENCE_RAW = None
    /\ _REFERENCE_CACHE = None
    /\ _REFERENCE_NAME_MAP = None
    /\ IW_REFERENCE_CACHE = None
    /\ last = NoCall
    /\ threads = NoThreads
    /\ cacheNames = <<>>
    /\ returned = {}
    /\ started = 0
    /\ description = ""
    /\ unitcall = NoCall
    /\ meals = <<>>
    /\ meal_items = <<>>
    /\ MEAL_PLAN_FILE = <<>>
    /\ recipes_sample \in Corpora20
    /\ INDEX_FILE = FALSE
    /\ META_FILE = None
    /\ VECTORS_FILE = None
    /\ faiss \in BOOLEAN
    /\ args = NoCall
    /\ _conn = NoTransaction

SetIndex(ix) ==
    /\ INDEX_FILE' = ix.index
    /\ META_FILE' = ix.meta
    /\ VECTORS_FILE' = ix.vectors

RetrieveUnused ==
    <<storeVars, threads, cacheNames, returned, started, description, unitcall,
      meals, meal_items, MEAL_PLAN_FILE, recipes_sample, faiss, args, _conn>>

BuildIndex(force) ==
    \E ix \in {build_index(Index, force)} :
        /\ SetIndex(ix)
        /\ last' = [op |-> "build_index", force |-> force]
        /\ UNCHANGED RetrieveUnused

Retrieve(query, k) ==
    \E r \in {retrieve(Index, query, k)} :
        /\ SetIndex(r.ix)
        /\ last' = [op |-> "retrieve", query |-> query, k |-> k, ret |-> r.ret]
        /\ UNCHANGED RetrieveUnused

RetrieveNext ==
    \/ \E force \in BOOLEAN : BuildIndex(force)
    \/ \E query \in Queries, k \in (-1)..MaxK : Retrieve(query, k)

RetrieveSpec == RetrieveInit /\ [][RetrieveNext]_vars

\* the position in the metadata store of a returned document
StoredAt(doc) == CHOOSE p \in DOMAIN META_FILE.d : META_FILE.d[p].recipe_id = doc.recipe_id

SameScore(a, b) == RLeq(a, b) /\ RLeq(b, a)

-----------------------------------------------------------------------------
(* IndexSpec: build_index and retrieve while recipes_sample.csv may be replaced
   between calls. *)

MaxTopK == 2

IndexQueries == {"", "xy"}

IndexInit ==
    /\ RetrieveInit

IndexUnused ==
    <<storeVars, threads, cacheNames, started, description, unitcall,
      meals, meal_items, MEAL_PLAN_FILE, faiss, args, _conn>>

\* recipes_sample.csv is replaced by another corpus
ChangeCorpus(lines) ==
    /\ lines # recipes_sample
    /\ recipes_sample' = lines
    /\ last' = [op |-> "corpus_change"]
    /\ returned' = {}
    /\ UNCHANGED <<INDEX_FILE, META_FILE, VECTORS_FILE, IndexUnused>>

IndexBuild(force) ==
    \E ix \in {build_index(Index, force)} :
        /\ SetIndex(ix)
        /\ last' = [op |-> "build_index", force |-> force]
        /\ returned' = IF force THEN {} ELSE returned
        /\ UNCHANGED <<recipes_sample, IndexUnused>>

IndexRetrieve(query, k) ==
    \E r \in {retrieve(Index, query, k)} :
        /\ SetIndex(r.ix)
        /\ last' = [op |-> "retrieve", query |-> query, k |-> k, ret |-> r.ret]
        /\ returned' = returned \cup {[query |-> query, k |-> k, ret |-> r.ret]}
        /\ UNCHANGED <<recipes_sample, IndexUnused>>

IndexNext ==
    \/ \E lines \in Corpora20 : ChangeCorpus(lines)
    \/ \E force \in BOOLEAN : IndexBuild(force)
    \/ \E query \in IndexQueries, k \in 1..MaxTopK : IndexRetrieve(query, k)

IndexSpec == IndexInit /\ [][IndexNext]_vars

\* C21: a retrieve(q, k) returns the list every earlier retrieve(q, k) returned
\* since the last forced rebuild or corpus change.
C21_RetrieveIsIdempotent ==
    last.op = "retrieve" =>
        \A earlier \in returned :
            (earlier.query = last.query /\ earlier.k = last.k) => earlier.ret = last.ret

\* whether entry i of the vector store is the embedding of entry i of the
\* metadata store, for every i
Parallel(meta, vectors) ==
    /\ Len(meta.d) = Len(vectors.d)
    /\ \A i \in DOMAIN meta.d : vectors.d[i] = _normalize(_hash_embed(meta.d[i].text))

\* C22: build_index(force) with both stores present and force false leaves both
\* stores as they were; with a store missing or force true it writes both from
\* the corpus, and the stores it wrote are parallel.
C22_BuildSkipsWhenBothStoresExist ==
    [][last'.op = "build_index" =>
          IF META_FILE.set /\ VECTORS_FILE.set /\ ~last'.force
          THEN UNCHANGED <<META_FILE, VECTORS_FILE>>
          ELSE /\ META_FILE' = Some(_load_raw_documents(recipes_sample))
               /\ VECTORS_FILE'.set
               /\ Parallel(META_FILE', VECTORS_FILE')]_vars

-----------------------------------------------------------------------------
(* The cooking assistant: tools/cooking_assistant.py. *)

DatasetFields ==
    <<"title", "ingredients", "steps", "tags", "per_serving_calories", "protein_g",
      "carb_g", "fat_g", "servings">>

\* _load_dataset(): csv.DictReader over recipes_sample.csv, which skips a blank
\* line; a row is the record of its nine fields
_load_dataset(lines) ==
    LET kept == SelectSeq(lines, LAMBDA parts : parts # <<"">>)
    IN  [i \in DOMAIN kept |->
            [title |-> kept[i][1], ingredients |-> kept[i][2], steps |-> kept[i][3],
             tags |-> kept[i][4], per_serving_calories |-> kept[i][5],
             protein_g |-> kept[i][6], carb_g |-> kept[i][7], fat_g |-> kept[i][8],
             servings |-> kept[i][9]]]

\* the index of the row at which "for row in data: if Test(row): return row"
\* returns, 0 when the loop ends without returning
FirstRow(data, Test(_)) ==
    IF \E i \in DOMAIN data : Test(data[i])
    THEN CHOOSE i \in DOMAIN data : Test(data[i]) /\ \A j \in 1..(i - 1) : ~Test(data[j])
    ELSE 0

\* _find_recipe matching titles only by the query being inside the title
_find_recipe_query_in_title_only(lines, query) ==
    LET data == _load_dataset(lines)
        query_lower == str_lower(query)
        by_title == FirstRow(data, LAMBDA row :
                        str_contains(query_lower, str_lower(row.title)))
        by_ingredient == FirstRow(data, LAMBDA row :
                        str_contains(query_lower, str_lower(row.ingredients)))
    IN  IF by_title > 0 THEN [raised |-> FALSE, row |-> data[by_title]]
        ELSE IF by_ingredient > 0 THEN [raised |-> FALSE, row |-> data[by_ingredient]]
        ELSE [raised |-> TRUE, row |-> <<>>]

\* _find_recipe(query): [raised, row]; raised is the ValueError "Recipe not found"
_find_recipe(lines, query) ==
    LET data == _load_dataset(lines)
        query_lower == str_lower(query)
        by_title == FirstRow(data, LAMBDA row :
                        \/ str_contains(query_lower, str_lower(row.title))
                        \/ str_contains(str_lower(row.title), query_lower))
        by_ingredient == FirstRow(data, LAMBDA row :
                        str_contains(query_lower, str_lower(row.ingredients)))
    IN  IF by_title > 0 THEN [raised |-> FALSE, row |-> data[by_title]]
        ELSE IF by_ingredient > 0 THEN [raised |-> FALSE, row |-> data[by_ingredient]]
        ELSE [raised |-> TRUE, row |-> <<>>]

\* int(x) of a float: truncation towards zero
IntTrunc(r) == IF r[1] < 0 THEN -((-r[1]) \div r[2]) ELSE r[1] \div r[2]

\* the Steps of recipe_steps: the non-empty stripped pieces between periods,
\* numbered from 1
StepsOf(steps) ==
    LET pieces == str_split(steps, ".")
        kept == SelectSeq([i \in DOMAIN pieces |-> str_strip(pieces[i])],
                          LAMBDA piece : piece # "")
    IN  [i \in DOMAIN kept |->
            [idx |-> i, instruction |-> kept[i], estimated_minutes |-> 5,
             tips |-> <<"Read the entire step before starting.">>,
             substitutions |-> <<"Swap similar vegetables if needed.">>]]

\* the MealItem recipe_steps makes of one ingredient
IngredientItem(ingredient, row, scale) ==
    [name |-> str_title(ingredient), quantity |-> scale, unit |-> "serving",
     calories |-> RMul(ParseFloat(row.per_serving_calories).value, scale),
     protein_g |-> RMul(ParseFloat(row.protein_g).value, scale),
     carb_g |-> RMul(ParseFloat(row.carb_g).value, scale),
     fat_g |-> RMul(ParseFloat(row.fat_g).value, scale),
     estimated |-> TRUE]

\* what recipe_steps returns for the row it found
StepsAndMeal(row, servings) ==
    LET parsed_servings == IntTrunc(ParseFloat(row.servings).value)
        base_servings == IF parsed_servings = 0 THEN 1 ELSE parsed_servings
        scale == Rat(servings, base_servings)
        ingredients == str_split(row.ingredients, "|")
    IN  [raised |-> FALSE,
         steps |-> StepsOf(row.steps),
         meal |-> [name |-> row.title, meal_type |-> "dinner",
                   items |-> [i \in DOMAIN ingredients |->
                                 IngredientItem(ingredients[i], row, scale)],
                   notes |-> row.tags]]

\* recipe_steps(query, servings): [raised, steps, meal]
recipe_steps(lines, query, servings) ==
    LET found == _find_recipe(lines, query)
    IN  IF found.raised THEN [raised |-> TRUE, steps |-> <<>>, meal |-> <<>>]
        ELSE StepsAndMeal(found.row, servings)

RECURSIVE NonAlnumToSpace(_)
\* re.sub(r"[^a-z0-9]+", " ", text) followed by split(): a character that is
\* no lowercase letter or digit separates words
NonAlnumToSpace(text) ==
    IF text = "" THEN ""
    ELSE (IF IndexIn(Head(text), LowerLetters) > 0 \/ IndexIn(Head(text), Digits) > 0
          THEN Head(text) ELSE " ") \o NonAlnumToSpace(Tail(text))

\* _normalize_text(text)
_normalize_text(text) == str_join(" ", str_split_ws(NonAlnumToSpace(str_lower(text))))

\* _find_recipe_by_title(query): [raised, row]
_find_recipe_by_title(lines, query) ==
    LET data == _load_dataset(lines)
        normalized_query == _normalize_text(query)
        i == FirstRow(data, LAMBDA row :
                 /\ _normalize_text(row.title) # ""
                 /\ str_contains(_normalize_text(row.title), normalized_query))
    IN  IF i > 0 THEN [raised |-> FALSE, row |-> data[i]]
        ELSE [raised |-> TRUE, row |-> <<>>]

RECURSIVE CountTerms(_, _)
\* sum(term in haystack for term in terms)
CountTerms(terms, haystack) ==
    IF terms = <<>> THEN 0
    ELSE (IF str_contains(Head(terms), haystack) THEN 1 ELSE 0)
             + CountTerms(Tail(terms), haystack)

RECURSIVE InsertByCount(_, _)
InsertByCount(sorted, e) ==
    IF sorted = <<>> THEN <<e>>
    ELSE IF Head(sorted).score < e.score THEN <<e>> \o sorted
    ELSE <<Head(sorted)>> \o InsertByCount(Tail(sorted), e)

RECURSIVE SortByCount(_)
\* scored.sort(key=lambda item: item[0], reverse=True)
SortByCount(scored) ==
    IF scored = <<>> THEN <<>>
    ELSE InsertByCount(SortByCount(SubSeq(scored, 1, Len(scored) - 1)),
                       scored[Len(scored)])

\* _suggest_recipes(query), limit 3
_suggest_recipes(lines, query) ==
    LET data == _load_dataset(lines)
        tokens == str_split_ws(query)
        terms == [i \in DOMAIN tokens |-> str_lower(tokens[i])]
        scored == SortByCount([i \in DOMAIN data |->
                      [score |-> CountTerms(terms, str_lower(data[i].title \o " "
                                                             \o data[i].ingredients)),
                       row |-> data[i]]])
        filtered == Slice(SelectSeq(scored, LAMBDA e : e.score > 0), 3)
        chosen == IF filtered # <<>> THEN filtered ELSE Slice(scored, 3)
    IN  [i \in DOMAIN chosen |-> chosen[i].row]

COOK_KEYWORDS ==
    <<"cook", "make", "prepare", "instructions", "how do i", "step", "recipe for", "guide">>

_is_instruction_request(query) ==
    \E i \in DOMAIN COOK_KEYWORDS : str_contains(COOK_KEYWORDS[i], str_lower(query))

\* the per-serving macros of a dataset row
RowMacros(row) ==
    [calories |-> ParseFloat(row.per_serving_calories).value,
     protein_g |-> ParseFloat(row.protein_g).value,
     carb_g |-> ParseFloat(row.carb_g).value,
     fat_g |-> ParseFloat(row.fat_g).value]

ScaledMacros(macros, scale) ==
    [calories |-> round_2(RMul(macros.calories, scale)),
     protein_g |-> round_2(RMul(macros.protein_g, scale)),
     carb_g |-> round_2(RMul(macros.carb_g, scale)),
     fat_g |-> round_2(RMul(macros.fat_g, scale))]

\* max(1, int(float(row.get("servings", 1)) or 1))
BaseServings(row) ==
    LET parsed == IntTrunc(ParseFloat(row.servings).value)
    IN  IF parsed < 1 THEN 1 ELSE parsed

\* the source entry of a dataset row; keep_blank_tags as the suggestions do
RowSource(row, servings, keep_blank_tags) ==
    [title |-> row.title,
     tags |-> IF keep_blank_tags THEN str_split(row.tags, ";")
              ELSE SelectSeq(str_split(row.tags, ";"), LAMBDA tag : str_strip(tag) # ""),
     servings |-> BaseServings(row),
     per_serving_macros |-> RowMacros(row),
     scaled_macros |-> ScaledMacros(RowMacros(row), Rat(servings, BaseServings(row)))]

\* the source entry of a retrieved document
DocSource(doc, servings) ==
    LET macros == [calories |-> doc.calories, protein_g |-> doc.protein_g,
                   carb_g |-> doc.carb_g, fat_g |-> doc.fat_g]
    IN  [title |-> doc.title, tags |-> doc.tags, servings |-> doc.servings,
         per_serving_macros |-> macros,
         scaled_macros |-> ScaledMacros(macros,
                               Rat(servings, IF doc.servings < 1 THEN 1 ELSE doc.servings))]

RECURSIVE NatToStr(_)
NatToStr(n) ==
    IF n < 10 THEN Char(Digits, n + 1)
    ELSE NatToStr(n \div 10) \o Char(Digits, (n % 10) + 1)

\* f"{x:.0f}": the nearest whole number, an exact half going to the even one
Format0f(x) ==
    LET low == RFloor(x)
        twice == 2 * (x[1] - low * x[2])
        nearest == IF twice < x[2] THEN low
                   ELSE IF twice > x[2] THEN low + 1
                   ELSE IF low % 2 = 0 THEN low ELSE low + 1
    IN  IF nearest < 0 THEN "-" \o NatToStr(-nearest) ELSE NatToStr(nearest)

\* the static answer built from the top source when text generation fails
FallbackAnswer(top, servings) ==
    str_join("\n\n",
        <<"NutriTrack can't reach the recipe brain right now, so here's a quick suggestion.",
          "Try **" \o top.title \o "** (" \o Format0f(top.scaled_macros.calories)
              \o " kcal total for " \o NatToStr(servings) \o " servings, "
              \o Format0f(top.scaled_macros.protein_g) \o "g protein).",
          "Please try again in a moment for full instructions.">>)

OfflineResponse ==
    "{\"description\": \"Sample meal\", \"meal_type\": \"lunch\", ...}"

\* stop_after_attempt(3)
MaxAttempts == 3

\* GeminiClient.generate_text under its retry decorator: [raised, text].  The
\* client is offline or answers attempt i with llm.attempts[i], "error" being a
\* failed call; the prompt of grounded_cooking_response contains "calorie", so
\* the offline answer is the sample-meal JSON.
generate_text(llm) ==
    IF llm.offline THEN [raised |-> FALSE, text |-> OfflineResponse]
    ELSE IF \E i \in 1..MaxAttempts : llm.attempts[i] # "error"
    THEN [raised |-> FALSE,
          text |-> llm.attempts[Min({i \in 1..MaxAttempts : llm.attempts[i] # "error"})]]
    ELSE [raised |-> TRUE, text |-> ""]

\* _local_instruction_response(query, servings): [found, iw, answer, sources];
\* of the answer text only the heading line is modelled
_local_instruction_response(file, iw, lines, query, servings) ==
    LET found == _find_recipe_by_title(lines, query)
        row == found.row
        pieces == str_split(row.ingredients, "|")
        ingredients == SelectSeq(pieces, LAMBDA piece : str_strip(piece) # "")
    IN  IF found.raised THEN [found |-> FALSE, iw |-> iw, answer |-> "", sources |-> <<>>]
        ELSE [found |-> TRUE,
              iw |-> IF ingredients = <<>> THEN iw ELSE iw_load_reference(file, iw),
              answer |-> "NutriTrack found **" \o row.title \o "**. Here's how to cook it for "
                             \o NatToStr(servings) \o " serving(s).",
              sources |-> <<RowSource(row, servings, FALSE)>>]

\* GeneratedOrFallback letting the failure of the call out
GeneratedOrRaise(loaded, iw, results, servings, llm) ==
    Only({[raised |-> generated.raised, ix |-> loaded, iw |-> iw,
           generation |-> IF generated.raised THEN "failed" ELSE "ok",
           answer |-> generated.text,
           sources |-> IF generated.raised THEN <<>> ELSE sources] :
             sources \in {[i \in DOMAIN results |-> DocSource(results[i].doc, servings)]},
             generated \in {generate_text(llm)}})

\* the part of grounded_cooking_response after retrieval returned results:
\* the prompt is sent and a failure of the call is caught
GeneratedOrFallback(loaded, iw, results, servings, llm) ==
    Only({[raised |-> FALSE, ix |-> loaded, iw |-> iw,
           generation |-> IF generated.raised THEN "failed" ELSE "ok",
           answer |-> IF generated.raised THEN FallbackAnswer(sources[1], servings)
                      ELSE generated.text,
           sources |-> sources] :
             sources \in {[i \in DOMAIN results |-> DocSource(results[i].doc, servings)]},
             generated \in {generate_text(llm)}})

\* the part of grounded_cooking_response when retrieval returned nothing; of
\* the answer text only the heading line is modelled
SuggestionsResponse(loaded, iw, lines, query, servings) ==
    LET suggestions == _suggest_recipes(lines, query)
    IN  [raised |-> FALSE, ix |-> loaded, iw |-> iw, generation |-> "none",
         answer |-> IF suggestions = <<>>
                    THEN "NutriTrack doesn't recognize that recipe yet and couldn't find "
                             \o "any close matches. Try describing it differently or specify an ingredient."
                    ELSE "NutriTrack couldn't find that exact dish, but these recipes are close matches:",
         sources |-> [i \in DOMAIN suggestions |-> RowSource(suggestions[i], servings, TRUE)]]

\* the branches of grounded_cooking_response, given what
\* _local_instruction_response and search_recipes returned
GroundedBranches(direct, retrieved, ix, iw, lines, query, servings, llm) ==
    IF direct.found
    THEN [raised |-> FALSE, ix |-> ix, iw |-> direct.iw, generation |-> "none",
          answer |-> direct.answer, sources |-> direct.sources]
    ELSE IF retrieved.ret = <<>>
    THEN SuggestionsResponse(retrieved.ix, iw, lines, query, servings)
    ELSE GeneratedOrFallback(retrieved.ix, iw, retrieved.ret, servings, llm)

\* grounded_cooking_response(query, servings, top_k, llm):
\* [raised, ix, iw, generation, answer, sources]
grounded_cooking_response(ix, file, iw, lines, query, requested, top_k, llm) ==
    LET servings == IF requested < 1 THEN 1 ELSE requested
    IN  Only({GroundedBranches(direct, retrieved, ix, iw, lines, query, servings, llm) :
                 direct \in {IF _is_instruction_request(query)
                             THEN _local_instruction_response(file, iw, lines, query, servings)
                             ELSE [found |-> FALSE, iw |-> iw, answer |-> "",
                                   sources |-> <<>>]},
                 retrieved \in {retrieve(ix, query, top_k)}})

-----------------------------------------------------------------------------
(* CookSpec: calls of the cooking assistant over a recipe corpus. *)

MaxServings == 3

\* a line of recipes_sample.csv with its title, ingredients, steps and servings
CookLine(title, ingredients, steps, servings) ==
    <<title, ingredients, steps, "quick;vegan", "450", "20.5", "30", "10", servings>>

CookCorpora ==
    { <<>>,
      <<CookLine("Tofu Bowl", "tofu|rice", "Fry tofu. Serve.", "2"),
        <<"">>,
        CookLine("Rice", "rice|salt", "Boil.", "1"),
        CookLine("Egg Rice", "egg|rice", "Fry. . Mix", "0")>>,
      <<CookLine("Soup", "leek|egg", "Simmer", "4")>> }

CookQueries == {"", "rice", "TOFU", "egg", "Salt", "soup of the day", "kiwi"}

CookInit ==
    /\ REFERENCE_FILE = FileOf(<<>>)
    /\ _REFERENCE_RAW = None
    /\ _REFERENCE_CACHE = None
    /\ _REFERENCE_NAME_MAP = None
    /\ IW_REFERENCE_CACHE = None
    /\ last = NoCall
    /\ threads = NoThreads
    /\ cacheNames = <<>>
    /\ returned = {}
    /\ started = 0
    /\ description = ""
    /\ unitcall = NoCall
    /\ meals = <<>>
    /\ meal_items = <<>>
    /\ MEAL_PLAN_FILE = <<>>
    /\ recipes_sample \in CookCorpora
    /\ INDEX_FILE = FALSE
    /\ META_FILE = None
    /\ VECTORS_FILE = None
    /\ faiss = FALSE
    /\ args = NoCall
    /\ _conn = NoTransaction

CookUnused ==
    <<storeVars, threads, cacheNames, returned, started, description, unitcall,
      meals, meal_items, MEAL_PLAN_FILE, recipes_sample, faiss, args, _conn>>

IndexFiles == <<INDEX_FILE, META_FILE, VECTORS_FILE>>

FindRecipe(query) ==
    \E r \in {_find_recipe(recipes_sample, query)} :
        /\ last' = [op |-> "_find_recipe", query |-> query, raised |-> r.raised,
                    row |-> r.row]
        /\ UNCHANGED <<IndexFiles, CookUnused>>

RecipeSteps(query, servings) ==
    \E r \in {recipe_steps(recipes_sample, query, servings)} :
        /\ last' = [op |-> "recipe_steps", query |-> query, servings |-> servings,
                    raised |-> r.raised, steps |-> r.steps, meal |-> r.meal]
        /\ UNCHANGED <<IndexFiles, CookUnused>>

\* the clients: offline, or online with the outcome of each attempt
Clients ==
    {[offline |-> TRUE, attempts |-> <<"error", "error", "error">>]}
        \cup {[offline |-> FALSE, attempts |-> a] :
                 a \in {<<"error", "", "error">>, <<"error", "error", "Cook it.">>,
                        <<"error", "error", "error">>}}

GroundedQueries == {"rice", "how do i cook Egg Rice", "make kiwi"}

GroundedCookingResponse(query, servings, top_k, llm) ==
    \E r \in {grounded_cooking_response(Index, REFERENCE_FILE, IW_REFERENCE_CACHE,
                                        recipes_sample, query, servings, top_k, llm)} :
        /\ SetIndex(r.ix)
        /\ IW_REFERENCE_CACHE' = r.iw
        /\ last' = [op |-> "grounded_cooking_response", query |-> query,
                    servings |-> servings, top_k |-> top_k, llm |-> llm,
                    raised |-> r.raised, generation |-> r.generation,
                    answer |-> r.answer, sources |-> r.sources]
        /\ UNCHANGED <<REFERENCE_FILE, _REFERENCE_RAW, _REFERENCE_CACHE, _REFERENCE_NAME_MAP,
                       threads, cacheNames, returned, started, description, unitcall,
                       meals, meal_items, MEAL_PLAN_FILE, recipes_sample, faiss, args, _conn>>

CookNext ==
    \/ \E query \in CookQueries : FindRecipe(query)
    \/ \E query \in GroundedQueries, servings \in {0, MaxServings}, top_k \in {0, 2},
          llm \in Clients : GroundedCookingResponse(query, servings, top_k, llm)
    \/ \E query \in CookQueries, servings \in {-1, 0, MaxServings} : RecipeSteps(query, servings)

CookSpec == CookInit /\ [][CookNext]_vars

\* the rows whose title contains the query or is contained in it, case ignored
TitleMatches(data, query) ==
    {i \in DOMAIN data :
        \/ str_contains(str_lower(query), str_lower(data[i].title))
        \/ str_contains(str_lower(data[i].title), str_lower(query))}

\* the rows whose ingredient list contains the query, case ignored
IngredientMatches(data, query) ==
    {i \in DOMAIN data : str_contains(str_lower(query), str_lower(data[i].ingredients))}

\* C23: _find_recipe returns the first row whose title matches; with no title
\* match the first row whose ingredients contain the query; and raises exactly
\* when there is neither.
C23_FindRecipePrefersTitles ==
    last.op = "_find_recipe" =>
        LET data == _load_dataset(recipes_sample)
            titles == TitleMatches(data, last.query)
            ingredients == IngredientMatches(data, last.query)
        IN  /\ titles # {} => ~last.raised /\ last.row = data[Min(titles)]
            /\ (titles = {} /\ ingredients # {}) =>
                   ~last.raised /\ last.row = data[Min(ingredients)]
            /\ last.raised <=> (titles = {} /\ ingredients = {})

\* the title "soup" lies inside the query "soup of the day"
C23_Witness ==
    /\ last.op = "_find_recipe"
    /\ last.query = "soup of the day"
    /\ ~last.raised
    /\ last.row.title = "Soup"

\* whether every quantity and macro of the item is above zero
AllPositive(item) ==
    /\ RLess(Num(0), item.quantity)
    /\ RLess(Num(0), item.calories)
    /\ RLess(Num(0), item.protein_g)
    /\ RLess(Num(0), item.carb_g)
    /\ RLess(Num(0), item.fat_g)

\* C24: recipe_steps with servings <= 0 raises, and the items of a meal it
\* returns have quantities and macros above zero.
C24_NonPositiveServingsRejected ==
    last.op = "recipe_steps" =>
        /\ last.servings <= 0 => last.raised
        /\ ~last.raised => \A i \in DOMAIN last.meal.items : AllPositive(last.meal.items[i])

\* C25: when retrieval returned a recipe and the text-generation call failed,
\* its retries included, grounded_cooking_response returns normally, its answer
\* is the static suggestion built from the first source, and its sources are
\* those it returns when the call succeeds.
C25_GenerationFailureFallsBack ==
    (last.op = "grounded_cooking_response" /\ last.generation = "failed") =>
        LET servings == IF last.servings < 1 THEN 1 ELSE last.servings
            success == grounded_cooking_response(Index, REFERENCE_FILE, IW_REFERENCE_CACHE,
                           recipes_sample, last.query, last.servings, last.top_k,
                           [offline |-> FALSE, attempts |-> <<"Cook it.", "Cook it.", "Cook it.">>])
        IN  /\ ~last.raised
            /\ last.sources # <<>>
            /\ last.sources = success.sources
            /\ last.answer = FallbackAnswer(last.sources[1], servings)

\* three failed attempts on "rice" for 3 servings: the suggestion names the top
\* source, Rice, 450 kcal for 1 serving scaled to 1350 kcal
C25_Witness ==
    /\ last.op = "grounded_cooking_response"
    /\ last.generation = "failed"
    /\ last.llm.attempts = <<"error", "error", "error">>
    /\ ~last.raised
    /\ Len(last.sources) = 2
    /\ last.sources[1].title = "Rice"
    /\ last.answer = "NutriTrack can't reach the recipe brain right now, so here's a quick suggestion."
                       \o "\n\nTry **" \o last.sources[1].title \o "** (1350 kcal total for 3 servings, 62g protein)."
                       \o "\n\nPlease try again in a moment for full instructions."

-----------------------------------------------------------------------------
(* macro_delta: core/utils.py *)

\* d.get(k, 0.0)
DictGetOrZero(d, k) == IF DictHas(d, k) THEN DictGet(d, k) ELSE Num(0)

DeltaKeys == <<"calories", "protein", "carbs", "fat">>

\* key if key == "calories" else f"{key[:-1]}_g"
total_key(key) == IF key = "calories" THEN key ELSE SubSeq(key, 1, Len(key) - 1) \o "_g"

\* macro_delta(targets, totals): the dict diff
macro_delta(targets, totals) ==
    [i \in DOMAIN DeltaKeys |->
        [k |-> DeltaKeys[i],
         v |-> round_2(RAdd(DictGetOrZero(totals, total_key(DeltaKeys[i])),
                            RMul(Num(-1), DictGetOrZero(targets, DeltaKeys[i]))))]]

\* the dicts of targets: with and without a fat target
DeltaTargets ==
    {<<[k |-> "calories", v |-> Num(c)], [k |-> "protein", v |-> Num(pr)],
       [k |-> "carbs", v |-> Num(200)]>> \o f :
        c \in {1800, 2000}, pr \in {0, 150}, f \in {<<>>, <<[k |-> "fat", v |-> Num(70)]>>}}

\* the dicts of totals, as macro_totals returns them: four sums, or no key
DeltaTotals ==
    {<<>>}
      \cup {<<[k |-> "calories", v |-> Rat(36011, 20)], [k |-> "protein_g", v |-> Num(pr)],
              [k |-> "carb_g", v |-> Num(cb)], [k |-> "fat_g", v |-> Num(f)]>> :
               pr \in {0, 120}, cb \in {200, 210}, f \in {0, 80}}

DeltaInit ==
    /\ REFERENCE_FILE = FileOf(<<>>)
    /\ _REFERENCE_RAW = None
    /\ _REFERENCE_CACHE = None
    /\ _REFERENCE_NAME_MAP = None
    /\ IW_REFERENCE_CACHE = None
    /\ last = NoCall
    /\ threads = NoThreads
    /\ cacheNames = <<>>
    /\ returned = {}
    /\ started = 0
    /\ description = ""
    /\ unitcall = NoCall
    /\ meals = <<>>
    /\ meal_items = <<>>
    /\ MEAL_PLAN_FILE = <<>>
    /\ recipes_sample = <<>>
    /\ INDEX_FILE = FALSE
    /\ META_FILE = None
    /\ VECTORS_FILE = None
    /\ faiss = FALSE
    /\ args \in {[targets |-> t, totals |-> u] : t \in DeltaTargets, u \in DeltaTotals}
    /\ _conn = NoTransaction

MacroDelta ==
    \E r \in {macro_delta(args.targets, args.totals)} :
        /\ last = NoCall
        /\ last' = [op |-> "macro_delta", targets |-> args.targets, totals |-> args.totals,
                    ret |-> r]
        /\ UNCHANGED <<storeVars, threads, cacheNames, returned, started, description,
                       unitcall, toolVars>>

DeltaNext == MacroDelta

DeltaSpec == DeltaInit /\ [][DeltaNext]_vars

\* the totals field of each macro
TotalsField ==
    [calories |-> "calories", protein |-> "protein_g", carbs |-> "carb_g", fat |-> "fat_g"]

\* C26: macro_delta returns for each of calories, protein, carbs and fat the
\* total minus the target, the totals read under calories, protein_g, carb_g
\* and fat_g (a missing entry counting as 0).
C26_DeltaIsTotalMinusTarget ==
    last.op = "macro_delta" =>
        \A i \in DOMAIN DeltaKeys :
            LET key == DeltaKeys[i]
            IN  /\ DictHas(last.ret, key)
                /\ RAdd(DictGet(last.ret, key), DictGetOrZero(last.targets, key))
                       = DictGetOrZero(last.totals, TotalsField[key])

-----------------------------------------------------------------------------
(* Daily totals after logging, in LogSpec *)

RECURSIVE SumStored(_, _)
\* the sum of one column of rows of meals
SumStored(rows, column) ==
    IF rows = <<>> THEN Num(0)
    ELSE RAdd(Head(rows)[column], SumStored(Tail(rows), column))

\* the column of meals that holds each field of the daily totals
TotalsColumn ==
    [calories |-> "total_cal", protein_g |-> "protein_g", carb_g |-> "carb_g",
     fat_g |-> "fat_g"]

\* C27: after a successful log_meal or log_reference_food the daily totals it
\* returned, and those Database.daily_totals returns for its date and user, are
\* field by field, calories included, the sums of the stored totals of the
\* meals of that date and user.
C27_DailyTotalsSumStoredMeals ==
    (last.op \in {"log_meal", "log_reference_food"} /\ ~last.raised) =>
        LET rows == SelectSeq(meals, LAMBDA row : row.dt = last.date /\ row.user_id = 1)
        IN  /\ last.daily_totals = daily_totals(Db, last.date, 1)
            /\ \A i \in DOMAIN MacroKeys :
                   /\ DictHas(last.daily_totals, MacroKeys[i])
                   /\ DictGet(last.daily_totals, MacroKeys[i])
                          = SumStored(rows, TotalsColumn[MacroKeys[i]])

-----------------------------------------------------------------------------
(* The database under failing statements: Database.cursor commits when its
   body returns and only closes the cursor when the body raises, so what the
   body inserted stays in the connection's open transaction. *)

\* the tables as the connection sees them: the committed rows and its own
\* uncommitted ones
ConnectionView(committed, conn) ==
    [meals |-> committed.meals \o conn.meals,
     meal_items |-> committed.meal_items \o conn.meal_items]

\* the body of Database.log_meal run up to its first n item INSERTs
InsertMealAndItems(db, meal, user_id, n) ==
    LET totals == MealTotals(meal.items)
        meal_id == Len(db.meals) + 1
        row == [id |-> meal_id, user_id |-> user_id, dt |-> meal.meal_date,
                meal_type |-> meal.meal_type, total_cal |-> totals.calories,
                protein_g |-> totals.protein_g, carb_g |-> totals.carb_g,
                fat_g |-> totals.fat_g]
    IN  [db |-> [meals |-> Append(db.meals, row),
                 meal_items |-> InsertItems(db.meal_items, meal_id,
                                            SubSeq(meal.items, 1, n))],
         meal_id |-> meal_id]

\* the rows of view that are not yet committed
Uncommitted(committed, view) ==
    [meals |-> SubSeq(view.meals, Len(committed.meals) + 1, Len(view.meals)),
     meal_items |-> SubSeq(view.meal_items, Len(committed.meal_items) + 1,
                           Len(view.meal_items))]

\* Database.log_meal(meal, user_id) where the INSERT of item fail_at raises an
\* sqlite3.Error (fail_at = 0: no statement fails): [raised, meal_id, committed, conn]
Database_log_meal(committed, conn, meal, user_id, fail_at) ==
    LET view == ConnectionView(committed, conn)
        done == InsertMealAndItems(view, meal, user_id,
                                   IF fail_at = 0 THEN Len(meal.items) ELSE fail_at - 1)
    IN  IF fail_at = 0
        THEN [raised |-> FALSE, meal_id |-> done.meal_id, committed |-> done.db,
              conn |-> NoTransaction]
        ELSE [raised |-> TRUE, meal_id |-> done.meal_id, committed |-> committed,
              conn |-> Uncommitted(committed, done.db)]

\* Database.meals_for_date(day, user_id): [ret, committed, conn]
Database_meals_for_date(committed, conn, day, user_id) ==
    LET view == ConnectionView(committed, conn)
    IN  [ret |-> meals_for_date(view, day, user_id), committed |-> view,
         conn |-> NoTransaction]

DbItems ==
    {<<PlanItem("Rice", Num(100), "g")>>,
     <<PlanItem("Rice", Num(100), "g"), PlanItem("Tofu", Num(1), "serving")>>}

DbInit ==
    /\ REFERENCE_FILE = FileOf(<<>>)
    /\ _REFERENCE_RAW = None
    /\ _REFERENCE_CACHE = None
    /\ _REFERENCE_NAME_MAP = None
    /\ IW_REFERENCE_CACHE = None
    /\ last = NoCall
    /\ threads = NoThreads
    /\ cacheNames = <<>>
    /\ returned = {}
    /\ started = 0
    /\ description = ""
    /\ unitcall = NoCall
    /\ ToolsUnused

DbUnused ==
    <<storeVars, threads, cacheNames, started, description, unitcall, MEAL_PLAN_FILE,
      recipes_sample, INDEX_FILE, META_FILE, VECTORS_FILE, faiss, args>>

\* returned collects the ids of the meal rows inserted by calls that failed
DbLogMeal(items, date, fail_at) ==
    \E r \in {Database_log_meal(Db, _conn,
                  [meal_type |-> "lunch", meal_date |-> date, items |-> items], 1, fail_at)} :
        /\ Len(meals) + Len(_conn.meals) < MaxMeals
        /\ fail_at <= Len(items)
        /\ meals' = r.committed.meals
        /\ meal_items' = r.committed.meal_items
        /\ _conn' = r.conn
        /\ returned' = IF r.raised THEN returned \cup {r.meal_id} ELSE returned
        /\ last' = [op |-> "Database.log_meal", date |-> date, raised |-> r.raised,
                    meal_id |-> r.meal_id, ret |-> <<>>]
        /\ UNCHANGED DbUnused

DbMealsForDate(date) ==
    \E r \in {Database_meals_for_date(Db, _conn, date, 1)} :
        /\ meals' = r.committed.meals
        /\ meal_items' = r.committed.meal_items
        /\ _conn' = r.conn
        /\ last' = [op |-> "Database.meals_for_date", date |-> date, raised |-> FALSE,
                    meal_id |-> 0, ret |-> r.ret]
        /\ UNCHANGED <<returned, DbUnused>>

DbNext ==
    \/ \E items \in DbItems, date \in LogDates, fail_at \in 0..2 :
          DbLogMeal(items, date, fail_at)
    \/ \E date \in LogDates : DbMealsForDate(date)

DbSpec == DbInit /\ [][DbNext]_vars

\* C28: after a database operation that succeeded, no row written by a failed
\* Database.log_meal is persisted or returned: neither its meal row nor an
\* item row of it.
C28_FailedLogMealLeavesNoRows ==
    (last.op \in {"Database.log_meal", "Database.meals_for_date"} /\ ~last.raised) =>
        /\ \A i \in DOMAIN meals : meals[i].id \notin returned
        /\ \A i \in DOMAIN meal_items : meal_items[i].meal_id \notin returned
        /\ \A i \in DOMAIN last.ret : last.ret[i].id \notin returned

-----------------------------------------------------------------------------
(* Adds and lookups over stores of several foods, in any file order:
   tools/calorie_tracker.py *)

MaxStore == 3

\* reference files as shipped: two foods sharing a letter, in either order
StoreFiles ==
    {<<[k |-> "cb", v |-> Values(89, 1, 23, 0)], [k |-> "ab", v |-> Values(59, 10, 4, 0)]>>,
     <<[k |-> "ab", v |-> Values(59, 10, 4, 0)], [k |-> "cb", v |-> Values(89, 1, 23, 0)]>>,
     <<>>}

StoreNames == {"a", " D", "cb", ""}

StoreTokens == {"b", "A", "c "}

StoreInit ==
    /\ REFERENCE_FILE \in {FileOf(d) : d \in StoreFiles}
    /\ _REFERENCE_RAW = None
    /\ _REFERENCE_CACHE = None
    /\ _REFERENCE_NAME_MAP = None
    /\ IW_REFERENCE_CACHE = None
    /\ last = NoCall
    /\ threads = NoThreads
    /\ cacheNames = <<>>
    /\ returned = {}
    /\ started = 0
    /\ description = ""
    /\ unitcall = NoCall
    /\ ToolsUnused

StoreAdd(name, m, reference_grams) ==
    \E r \in {add_reference_food(Globals, name, m.calories, m.protein_g, m.carb_g, m.fat_g,
                                 reference_grams)} :
        /\ Len(r.g.file.d) <= MaxStore
        /\ SetGlobals(r.g)
        /\ last' = [op |-> "add_reference_food", name |-> name, m |-> m,
                    reference_grams |-> reference_grams, raised |-> r.raised]
        /\ UNCHANGED <<toolVars, IW_REFERENCE_CACHE, threads, returned, started,
                       description, unitcall>>

StoreNext ==
    \/ \E name \in StoreNames, c \in AddInputs : StoreAdd(name, c[1], c[2])
    \/ \E token \in StoreTokens : MatchFood(token)

StoreSpec == StoreInit /\ [][StoreNext]_vars

\* what a caller of _match_food(token) sees
Lookup(g, token) ==
    LET r == _match_food(g, token)
    IN  [raised |-> r.raised, name |-> r.name, payload |-> r.payload]

\* C29: an add_reference_food that succeeds with a name whose lowercased form
\* does not contain the token t leaves lookup(t) as it was: the same name and
\* macros, or the same error, before and after the add.
C29_UnrelatedAddKeepsLookup ==
    [][(last'.op = "add_reference_food" /\ ~last'.raised) =>
          \A t \in StoreTokens :
              ~str_contains(str_strip(str_lower(t)), str_lower(str_strip(last'.name))) =>
                  Lookup(Globals, t) = Lookup(Globals', t)]_vars

====
